---- MODULE Spec2Model ----
(***************************************************************************)
(* Model of the educational video backend: the stage-based OpenCV frame    *)
(* renderer (legacy_video/simple_video_generator.py), its wrapper          *)
(* (legacy_video/animation_generator.py), the hybrid video pipeline        *)
(* (video_pipeline/video_generator.py) and the web task layer (app.py).    *)
(*                                                                         *)
(* Text is a sequence of one-character strings.  Timeline progress is the  *)
(* exact fraction frame_num / total_frames; every threshold of the source  *)
(* is a whole number of percent, so "progress < 0.15" is modelled as       *)
(* 100 * frame_num < 15 * total_frames.  For the frame counts a render can *)
(* have (far below 2^50) the double-precision comparison of the source     *)
(* and the exact comparison agree.                                         *)
(***************************************************************************)
EXTENDS Integers, Sequences, FiniteSets, TLC

VARIABLES
    topic,           \* request: title text
    explanation,     \* request: body text
    formulas,        \* request: highlighted expressions (sequence of texts)
    duration,        \* request: duration in seconds
    total_frames,    \* generate_video: duration * fps; frame routines: argument
    frame_num,       \* loop counter of generate_video / argument of a frame routine
    animation_type,  \* result of _detect_animation_type
    frame,           \* the frame drawn last (NoFrame before any)
    out,             \* the cv2.VideoWriter handle: "none", "open", "released"
    written,         \* frame numbers handed to out.write, in order
    result,          \* value returned by generate_video
    raised,          \* TRUE when an exception escaped to the caller
    exc,             \* the exception caught by generate_video ("none" if none)
    routine,         \* the frame routine invoked last ("none" before any)
    pc,              \* control position
    AI_AVAILABLE,    \* video_generator.py: did the AI modules import
    video_tasks,     \* app.py: task id -> task entry
    jobs,            \* app.py: the /api/ask requests answered and their background tasks
    response,        \* app.py: the response to the last request
    drawn,           \* the frames drawn by direct invocations, oldest first
    arg_text,        \* a primitive invoked directly: its text argument
    arg_words,       \* a primitive invoked directly: text.split(), as word lengths
    arg_alpha,       \* a primitive invoked directly: its alpha argument
    arg_count,       \* a primitive invoked directly: its count argument
    answer_text,     \* generate_script: its argument
    scenes,          \* generate_script: the list it returns ("unset" before the call)
    model,           \* llm_engine.model: the active model
    ollama_models,   \* the models the Ollama server holds
    switch_call,     \* switch_model: model_name, available and success of the last call
    tracker,         \* a ProgressTracker: its fields
    arg_current,     \* the tracker's caller: the scene it is at
    arg_total        \* the tracker's caller: its number of scenes

vars == <<topic, explanation, formulas, duration, total_frames, frame_num,
          animation_type, frame, out, written, result, raised, exc, routine, pc,
          AI_AVAILABLE, video_tasks, jobs, response, drawn, arg_text, arg_words, arg_alpha,
          arg_count, answer_text, scenes, model, ollama_models, switch_call, tracker,
          arg_current, arg_total>>

renderVars == <<topic, explanation, formulas, duration, total_frames, frame_num,
                animation_type, frame, out, written, result, raised, exc, routine>>

taskVars == <<AI_AVAILABLE, video_tasks, jobs, response>>

NoResponse == [op |-> "none", code |-> 0, task_id |-> 0, status |-> "none"]

\* the web layer before any request
TaskLayerIdle ==
    /\ AI_AVAILABLE = TRUE
    /\ video_tasks = <<>>
    /\ jobs = <<>>
    /\ response = NoResponse

requestVars == <<topic, explanation, formulas, duration>>

primitiveArgs == <<arg_text, arg_words, arg_alpha, arg_count>>

scriptVars == <<answer_text, scenes>>

modelVars == <<model, ollama_models, switch_call>>

trackerVars == <<tracker, arg_current, arg_total>>

helperVars == <<scriptVars, modelVars, trackerVars>>

directVars == <<drawn, primitiveArgs, helperVars>>

\* llm_engine.py:15 with config.py:18: the model configured at start-up
DefaultModel == "mistral:latest"

NoCall == [model_name |-> "none", available |-> {}, success |-> "not tried"]

\* progress.py:9-13: a tracker as constructed
NewTracker ==
    [current_scene |-> 0, total_scenes |-> 0, percentage |-> 0, status |-> "idle",
     error |-> "unset"]

\* no script generated, no model switched, a fresh tracker
HelpersIdle ==
    /\ answer_text = <<>>
    /\ scenes = "unset"
    /\ model = DefaultModel
    /\ ollama_models = {DefaultModel}
    /\ switch_call = NoCall
    /\ tracker = NewTracker
    /\ arg_current = 0
    /\ arg_total = 0

\* nothing invoked directly yet
DirectIdle ==
    /\ drawn = <<>>
    /\ arg_text = <<>>
    /\ arg_words = <<>>
    /\ arg_alpha = [n |-> 1, d |-> 1]
    /\ arg_count = 0
    /\ HelpersIdle

----------------------------------------------------------------------------
(* Bounds *)

MaxTotalFrames == 40
MaxDuration == 2
MaxTitleTokens == 3
MaxBodyTokens == 1
MaxAsks == 2

\* direct invocations of a frame routine in one behaviour, and the largest
\* total frame count they are given
MaxDraws == 3
MaxRedrawFrames == 4

\* primitives invoked directly: the words of a paragraph, the words of a
\* paragraph that may hold short and over-long words, the characters of a
\* title, formula or conclusion, and the steps alpha is drawn in
MaxWords == 11
MaxMixedWords == 4
MaxTextLen == 61
AlphaSteps == 10

\* the largest object count handed to the gallery
MaxCount == 12
MaxParagraphs == 6
MaxScenes == 50

----------------------------------------------------------------------------
(* Text helpers: Python str operations used by the renderer *)

UpperChars == <<"A","B","C","D","E","F","G","H","I","J","K","L","M",
                "N","O","P","Q","R","S","T","U","V","W","X","Y","Z">>
LowerChars == <<"a","b","c","d","e","f","g","h","i","j","k","l","m",
                "n","o","p","q","r","s","t","u","v","w","x","y","z">>

LowerChar(c) ==
    IF \E i \in 1..26 : UpperChars[i] = c
    THEN LowerChars[CHOOSE i \in 1..26 : UpperChars[i] = c]
    ELSE c

\* str.lower()
Lower(s) == [i \in 1..Len(s) |-> LowerChar(s[i])]

Digits == <<"0","1","2","3","4","5","6","7","8","9">>

\* regex class \d
IsDigit(c) == \E i \in 1..10 : Digits[i] = c

\* regex class \s
IsSpace(c) == c \in {" ", "\t", "\n"}

DigitVal(c) == (CHOOSE i \in 1..10 : Digits[i] = c) - 1

\* the "in" operator on strings
Contains(s, sub) ==
    \E i \in 1..(Len(s) - Len(sub) + 1) :
        \A j \in 1..Len(sub) : s[i + j - 1] = sub[j]

\* one scan step of re.findall(r'\d+', s): cur is the digit run being read
RECURSIVE FindAllFrom(_, _, _, _)
FindAllFrom(s, i, cur, acc) ==
    IF i > Len(s)
    THEN IF cur = <<>> THEN acc ELSE Append(acc, cur)
    ELSE IF IsDigit(s[i])
         THEN FindAllFrom(s, i + 1, Append(cur, s[i]), acc)
         ELSE FindAllFrom(s, i + 1, <<>>,
                          IF cur = <<>> THEN acc ELSE Append(acc, cur))

\* re.findall(r'\d+', s): the maximal digit runs of s, left to right
FindAllNumbers(s) == FindAllFrom(s, 1, <<>>, <<>>)

\* int(digits)
RECURSIVE ParseInt(_)
ParseInt(ds) ==
    IF ds = <<>> THEN 0
    ELSE 10 * ParseInt(SubSeq(ds, 1, Len(ds) - 1)) + DigitVal(ds[Len(ds)])

\* str(n) for n >= 0
RECURSIVE IntToStr(_)
IntToStr(n) ==
    IF n < 10 THEN <<Digits[n + 1]>>
    ELSE IntToStr(n \div 10) \o <<Digits[(n % 10) + 1]>>

\* NumericPattern without the operand after the operator
NumericPatternOneOperand(s) ==
    \E q \in 1..Len(s) :
        /\ s[q] \in {"+", "-"}
        /\ \E p \in 1..(q - 1) :
              /\ IsDigit(s[p])
              /\ \A k \in (p + 1)..(q - 1) : IsSpace(s[k])

\* re.search(r'\d+\s*[\+\-]\s*\d+', s): a digit, optional whitespace,
\* "+" or "-", optional whitespace, a digit
NumericPattern(s) ==
    \E q \in 1..Len(s) :
        /\ s[q] \in {"+", "-"}
        /\ \E p \in 1..(q - 1) :
              /\ IsDigit(s[p])
              /\ \A k \in (p + 1)..(q - 1) : IsSpace(s[k])
        /\ \E r \in (q + 1)..Len(s) :
              /\ IsDigit(s[r])
              /\ \A k \in (q + 1)..(r - 1) : IsSpace(s[k])

\* Ellipsize appending the dots to the first cap characters
EllipsizeAfterCap(text, cap, keep) ==
    IF Len(text) > cap THEN SubSeq(text, 1, cap) \o <<".", ".", ".">> ELSE text

\* text[:keep] + "..." when len(text) > cap
Ellipsize(text, cap, keep) ==
    IF Len(text) > cap THEN SubSeq(text, 1, keep) \o <<".", ".", ".">> ELSE text

KwTheorem == <<"t","h","e","o","r","e","m">>
KwLaw == <<"l","a","w">>
KwPythag == <<"p","y","t","h","a","g">>

----------------------------------------------------------------------------
(* EnhancedVideoGenerator._detect_animation_type *)

\* detect_animation_type testing the formulas before the theorem keywords
detect_animation_type_formula_first(t, e, fs) ==
    LET topic_lower == Lower(t)
        explanation_lower == Lower(e)
    IN  IF NumericPattern(topic_lower) \/ NumericPattern(explanation_lower)
        THEN "math_addition"
        ELSE IF Len(fs) > 0
        THEN "math_formula"
        ELSE IF Contains(topic_lower, KwTheorem) \/ Contains(topic_lower, KwLaw)
        THEN "theorem"
        ELSE "step_by_step"

\* detect_animation_type looking for the theorem keywords in the body too
detect_animation_type_body_keywords(t, e, fs) ==
    LET topic_lower == Lower(t)
        explanation_lower == Lower(e)
    IN  IF NumericPattern(topic_lower) \/ NumericPattern(explanation_lower)
        THEN "math_addition"
        ELSE IF \/ Contains(topic_lower, KwTheorem) \/ Contains(topic_lower, KwLaw)
                \/ Contains(explanation_lower, KwTheorem)
                \/ Contains(explanation_lower, KwLaw)
        THEN "theorem"
        ELSE IF Len(fs) > 0
        THEN "math_formula"
        ELSE "step_by_step"

detect_animation_type(t, e, fs) ==
    LET topic_lower == Lower(t)
        explanation_lower == Lower(e)
    IN  IF NumericPattern(topic_lower) \/ NumericPattern(explanation_lower)
        THEN "math_addition"
        ELSE IF Contains(topic_lower, KwTheorem) \/ Contains(topic_lower, KwLaw)
        THEN "theorem"
        ELSE IF Len(fs) > 0
        THEN "math_formula"
        ELSE "step_by_step"

----------------------------------------------------------------------------
(* Timeline: stage tables read off the if/elif chains of the frame routines. *)
(* bounds[i] is the percent in the i-th "progress < b" test (the last stage  *)
(* is the else branch and has none); local[i] holds the percent subtracted   *)
(* from progress and the percent it is divided by to get the local progress. *)

\* MathAdditionStages with the operator stage's offset off by five percent
MathAdditionStagesGap ==
    [name   |-> "math_addition",
     bounds |-> <<15, 35, 45, 65, 85>>,
     local  |-> << [sub |-> 0,  div |-> 15], [sub |-> 15, div |-> 20],
                   [sub |-> 30, div |-> 10], [sub |-> 45, div |-> 20],
                   [sub |-> 65, div |-> 20], [sub |-> 85, div |-> 15] >>]

MathAdditionStages ==
    [name   |-> "math_addition",
     bounds |-> <<15, 35, 45, 65, 85>>,
     local  |-> << [sub |-> 0,  div |-> 15], [sub |-> 15, div |-> 20],
                   [sub |-> 35, div |-> 10], [sub |-> 45, div |-> 20],
                   [sub |-> 65, div |-> 20], [sub |-> 85, div |-> 15] >>]

FormulaStages ==
    [name   |-> "math_formula",
     bounds |-> <<15, 40, 80>>,
     local  |-> << [sub |-> 0,  div |-> 15], [sub |-> 15, div |-> 25],
                   [sub |-> 40, div |-> 40], [sub |-> 80, div |-> 20] >>]

PythagoreanStages ==
    [name   |-> "pythagorean",
     bounds |-> <<15, 50, 75>>,
     local  |-> << [sub |-> 0,  div |-> 15], [sub |-> 15, div |-> 35],
                   [sub |-> 50, div |-> 25], [sub |-> 75, div |-> 25] >>]

StepByStepStages ==
    [name   |-> "step_by_step",
     bounds |-> <<20, 70, 90>>,
     local  |-> << [sub |-> 0,  div |-> 20], [sub |-> 20, div |-> 50],
                   [sub |-> 70, div |-> 20], [sub |-> 90, div |-> 10] >>]

StageTables == {MathAdditionStages, FormulaStages, PythagoreanStages, StepByStepStages}

TableNamed(n) == CHOOSE t \in StageTables : t.name = n
\* StageAt taking the last branch whose condition holds instead of the first
StageAtLastMatch(table, f, n) ==
    IF \E i \in 1..Len(table.bounds) : 100 * f < table.bounds[i] * n
    THEN CHOOSE i \in 1..Len(table.bounds) :
            /\ 100 * f < table.bounds[i] * n
            /\ \A j \in (i + 1)..Len(table.bounds) : ~(100 * f < table.bounds[j] * n)
    ELSE Len(table.bounds) + 1

\* the branch of the if/elif/else chain taken at progress = f / n
StageAt(table, f, n) ==
    IF \E i \in 1..Len(table.bounds) : 100 * f < table.bounds[i] * n
    THEN CHOOSE i \in 1..Len(table.bounds) :
            /\ 100 * f < table.bounds[i] * n
            /\ \A j \in 1..(i - 1) : ~(100 * f < table.bounds[j] * n)
    ELSE Len(table.bounds) + 1

\* LocalProgress measured from the stage's end instead of its start
LocalProgressFromEnd(table, i, f, n) ==
    [n |-> 100 * f - (table.local[i].sub + table.local[i].div) * n,
     d |-> table.local[i].div * n]

\* (progress - sub) / div as the exact fraction n / d
LocalProgress(table, i, f, n) ==
    [n |-> 100 * f - table.local[i].sub * n, d |-> table.local[i].div * n]

One == [n |-> 1, d |-> 1]

\* a > 0.5
MoreThanHalf(a) == 2 * a.n > a.d

\* (a - 0.5) / 0.5
SecondHalf(a) == [n |-> 2 * a.n - a.d, d |-> a.d]

----------------------------------------------------------------------------
(* Drawing primitives.  A frame is the list of primitives painted on a     *)
(* fresh background; pixel coordinates are not modelled.                   *)

\* text is the text handed to the primitive, shown the text it paints
DrawOp(op, text, shown, count, alpha) ==
    [op |-> op, text |-> text, shown |-> shown, count |-> count, alpha |-> alpha]

draw_title(title, alpha) == DrawOp("title", title, Ellipsize(title, 50, 47), 0, alpha)

\* draw_objects_group revealing count * alpha markers, without the cap of 10
draw_objects_group_uncapped(count, alpha, label) ==
    LET items_to_show == (count * alpha.n) \div alpha.d
        cols == IF count < 5 THEN count ELSE 5
    IN  [op |-> "objects_group", text |-> label,
         shown |-> IF items_to_show > 0 /\ label # <<>> /\ MoreThanHalf(alpha)
                   THEN label ELSE <<>>,
         count |-> count, alpha |-> alpha,
         markers |-> [i \in 1..items_to_show |->
                         [row |-> (i - 1) \div cols, col |-> (i - 1) % cols]],
         suffix |-> IF items_to_show > 0 /\ count > 10
                    THEN <<"x">> \o IntToStr(count) ELSE <<>>]

\* draw_objects_group painting the count text only once alpha has reached 1
draw_objects_group_suffix_at_one(count, alpha, label) ==
    LET visible_count == IF count < 10 THEN count ELSE 10
        items_to_show == (visible_count * alpha.n) \div alpha.d
        cols == IF visible_count < 5 THEN visible_count ELSE 5
    IN  [op |-> "objects_group", text |-> label,
         shown |-> IF items_to_show > 0 /\ label # <<>> /\ MoreThanHalf(alpha)
                   THEN label ELSE <<>>,
         count |-> count, alpha |-> alpha,
         markers |-> [i \in 1..items_to_show |->
                         [row |-> (i - 1) \div cols, col |-> (i - 1) % cols]],
         suffix |-> IF alpha.n >= alpha.d /\ count > 10
                    THEN <<"x">> \o IntToStr(count) ELSE <<>>]

\* lines 186-229.  Nothing is painted when items_to_show is 0 (line 189);
\* otherwise the label (when alpha > 0.5), one marker per item at its grid
\* cell, and the count text when count > 10.
draw_objects_group(count, alpha, label) ==
    LET visible_count == IF count < 10 THEN count ELSE 10
        items_to_show == (visible_count * alpha.n) \div alpha.d
        cols == IF visible_count < 5 THEN visible_count ELSE 5
    IN  [op |-> "objects_group", text |-> label,
         shown |-> IF items_to_show > 0 /\ label # <<>> /\ MoreThanHalf(alpha)
                   THEN label ELSE <<>>,
         count |-> count, alpha |-> alpha,
         markers |-> [i \in 1..items_to_show |->
                         [row |-> (i - 1) \div cols, col |-> (i - 1) % cols]],
         suffix |-> IF items_to_show > 0 /\ count > 10
                    THEN <<"x">> \o IntToStr(count) ELSE <<>>]

draw_large_number(number, alpha) == DrawOp("large_number", number, number, 0, alpha)

draw_operator(operator, alpha) == DrawOp("operator", operator, operator, 0, alpha)

\* line 457, words = text.split(): the lengths of the maximal runs of
\* non-space characters, in order
RECURSIVE SplitFrom(_, _, _)
SplitFrom(text, i, run) ==
    IF i > Len(text)
    THEN IF run > 0 THEN <<run>> ELSE <<>>
    ELSE IF IsSpace(text[i])
         THEN (IF run > 0 THEN <<run>> ELSE <<>>) \o SplitFrom(text, i + 1, 0)
         ELSE SplitFrom(text, i + 1, run + 1)

WordLengths(text) == SplitFrom(text, 1, 0)

max_chars == 70
MaxLines == 10

\* len(" ".join(line)) for a line given as the positions of its words
RECURSIVE JoinedLength(_, _)
JoinedLength(words, line) ==
    IF line = <<>> THEN 0
    ELSE IF Len(line) = 1 THEN words[line[1]]
    ELSE words[line[1]] + 1 + JoinedLength(words, Tail(line))

\* WrapFrom closing a line only once it is already longer than max_chars
RECURSIVE WrapFromLate(_, _, _, _)
WrapFromLate(words, i, current_line, lines) ==
    IF i > Len(words)
    THEN IF current_line # <<>> THEN Append(lines, current_line) ELSE lines
    ELSE IF JoinedLength(words, current_line) <= max_chars
         THEN WrapFromLate(words, i + 1, Append(current_line, i), lines)
         ELSE WrapFromLate(words, i + 1, <<i>>,
                           IF current_line # <<>> THEN Append(lines, current_line)
                           ELSE lines)

\* lines 458-471: the loop over the words from word i on, and the flush of
\* the last line; words are lengths, a line is the positions of its words
RECURSIVE WrapFrom(_, _, _, _)
WrapFrom(words, i, current_line, lines) ==
    IF i > Len(words)
    THEN IF current_line # <<>> THEN Append(lines, current_line) ELSE lines
    ELSE IF JoinedLength(words, Append(current_line, i)) <= max_chars
         THEN WrapFrom(words, i + 1, Append(current_line, i), lines)
         ELSE WrapFrom(words, i + 1, <<i>>,
                       IF current_line # <<>> THEN Append(lines, current_line)
                       ELSE lines)

\* line 474: lines = lines[:10]
wrap_lines(words) ==
    LET lines == WrapFrom(words, 1, <<>>, <<>>)
    IN  SubSeq(lines, 1, IF Len(lines) < MaxLines THEN Len(lines) ELSE MaxLines)

\* num_lines_to_show without the line in progress
num_lines_to_show_whole(count, alpha) ==
    LET k == (count * alpha.n) \div alpha.d
    IN  IF count < k THEN count ELSE k

\* line 477: min(len(lines), int(len(lines) * alpha) + 1), alpha = n / d >= 0
num_lines_to_show(count, alpha) ==
    LET k == (count * alpha.n) \div alpha.d + 1
    IN  IF count < k THEN count ELSE k

\* lines 458-493 for the words of the text: the lines kept, the lines shown
wrapped_explanation_of(text, words, alpha) ==
    LET lines == wrap_lines(words)
        num == num_lines_to_show(Len(lines), alpha)
    IN  [op |-> "wrapped_explanation", text |-> text, shown |-> SubSeq(lines, 1, num),
         count |-> num, alpha |-> alpha, lines |-> lines]

draw_wrapped_explanation(text, alpha) ==
    wrapped_explanation_of(text, WordLengths(text), alpha)

draw_centered_formula(formula, alpha) ==
    DrawOp("centered_formula", formula, Ellipsize(formula, 60, 57), 0, alpha)

\* draw_right_triangle showing the right-angle marker from alpha 0.5 on
draw_right_triangle_marker_at_half(alpha) ==
    [op |-> "right_triangle", text |-> <<>>, shown |-> <<>>, count |-> 0, alpha |-> alpha,
     size |-> (200 * alpha.n) \div alpha.d,
     outline |-> 5 * alpha.n > alpha.d,
     marker |-> 2 * alpha.n >= alpha.d,
     labels |-> IF 10 * alpha.n > 7 * alpha.d THEN <<"a", "b", "c">> ELSE <<>>,
     label_alpha |-> IF 10 * alpha.n > 7 * alpha.d
                     THEN [n |-> 10 * alpha.n - 7 * alpha.d, d |-> 3 * alpha.d]
                     ELSE [n |-> 0, d |-> 1]]

\* lines 353-393: size = int(200 * alpha); fill and outline when
\* alpha > 0.2, right-angle square when alpha > 0.5, labels a, b, c when
\* alpha > 0.7 with label_alpha = (alpha - 0.7) / 0.3
draw_right_triangle(alpha) ==
    [op |-> "right_triangle", text |-> <<>>, shown |-> <<>>, count |-> 0, alpha |-> alpha,
     size |-> (200 * alpha.n) \div alpha.d,
     outline |-> 5 * alpha.n > alpha.d,
     marker |-> 2 * alpha.n > alpha.d,
     labels |-> IF 10 * alpha.n > 7 * alpha.d THEN <<"a", "b", "c">> ELSE <<>>,
     label_alpha |-> IF 10 * alpha.n > 7 * alpha.d
                     THEN [n |-> 10 * alpha.n - 7 * alpha.d, d |-> 3 * alpha.d]
                     ELSE [n |-> 0, d |-> 1]]

draw_conclusion(text, alpha) ==
    DrawOp("conclusion", text, Ellipsize(text, 40, 37), 0, alpha)

Frame(table, stage, local, ops) ==
    [seq |-> table.name, stage |-> stage, local |-> local, ops |-> ops]

NoFrame == [seq |-> "none", stage |-> 0, local |-> [n |-> 0, d |-> 1], ops |-> <<>>]

LblFirst == <<"F","i","r","s","t"," ","G","r","o","u","p">>
LblSecond == <<"S","e","c","o","n","d"," ","G","r","o","u","p">>
\* "sup2" stands for the one character U+00B2
TxtDefaultPythag == <<"a","sup2"," ","+"," ","b","sup2"," ","="," ","c","sup2">>

----------------------------------------------------------------------------
(* Frame routines *)

create_step_by_step_frame(f, n, t, e, fs) ==
    LET stage == StageAt(StepByStepStages, f, n)
        sp == LocalProgress(StepByStepStages, stage, f, n)
        ops == CASE stage = 1 -> << draw_title(t, sp) >>
                 [] stage = 2 -> << draw_title(t, One), draw_wrapped_explanation(e, sp) >>
                 [] stage = 3 -> << draw_title(t, One), draw_wrapped_explanation(e, One) >>
                                 \o (IF Len(fs) > 0
                                     THEN << draw_centered_formula(fs[1], sp) >>
                                     ELSE <<>>)
                 [] OTHER     -> << draw_conclusion(t, sp) >>
    IN  Frame(StepByStepStages, stage, sp, ops)

\* create_math_addition_frame subtracting when it should add
create_math_addition_frame_difference(f, n, t, e, fs) ==
    LET numbers == FindAllNumbers(t \o <<" ">> \o e)
    IN  IF Len(numbers) >= 2
        THEN
          LET num1 == ParseInt(numbers[1])
              num2 == ParseInt(numbers[2])
              res == IF num1 >= num2 THEN num1 - num2 ELSE num2 - num1
              stage == StageAt(MathAdditionStages, f, n)
              sp == LocalProgress(MathAdditionStages, stage, f, n)
          IN  Frame(MathAdditionStages, stage, sp,
                    << draw_conclusion(
                         IntToStr(num1) \o <<" ", "+", " ">> \o
                         IntToStr(num2) \o <<" ", "=", " ">> \o
                         IntToStr(res), sp) >>)
        ELSE create_step_by_step_frame(f, n, t, e, fs)

\* create_math_addition_frame running the numeric stages with a missing
\* operand read as 0 instead of falling back
create_math_addition_frame_no_fallback(f, n, t, e, fs) ==
    LET numbers == FindAllNumbers(t \o <<" ">> \o e)
        num1 == IF Len(numbers) >= 1 THEN ParseInt(numbers[1]) ELSE 0
        num2 == IF Len(numbers) >= 2 THEN ParseInt(numbers[2]) ELSE 0
        stage == StageAt(MathAdditionStages, f, n)
        sp == LocalProgress(MathAdditionStages, stage, f, n)
    IN  Frame(MathAdditionStages, stage, sp,
              << draw_objects_group(num1, sp, LblFirst),
                 draw_objects_group(num2, sp, LblSecond) >>)

create_math_addition_frame(f, n, t, e, fs) ==
    LET numbers == FindAllNumbers(t \o <<" ">> \o e)
    IN  IF Len(numbers) >= 2
        THEN
          LET num1 == ParseInt(numbers[1])
              num2 == ParseInt(numbers[2])
              res == num1 + num2
              stage == StageAt(MathAdditionStages, f, n)
              sp == LocalProgress(MathAdditionStages, stage, f, n)
              first == << draw_title(t, One),
                          draw_objects_group(num1, One, LblFirst),
                          draw_large_number(IntToStr(num1), One) >>
              ops == CASE stage = 1 -> << draw_title(t, sp) >>
                       [] stage = 2 -> << draw_title(t, One),
                                          draw_objects_group(num1, sp, LblFirst),
                                          draw_large_number(IntToStr(num1), sp) >>
                       [] stage = 3 -> first \o << draw_operator(<<"+">>, sp) >>
                       [] stage = 4 -> first \o
                                       << draw_operator(<<"+">>, One),
                                          draw_objects_group(num2, sp, LblSecond),
                                          draw_large_number(IntToStr(num2), sp) >>
                       [] stage = 5 -> << draw_title(t, One),
                                          draw_objects_group(num1, One, <<>>),
                                          draw_objects_group(num2, One, <<>>) >>
                                       \o (IF MoreThanHalf(sp)
                                           THEN << draw_operator(<<"=">>, SecondHalf(sp)),
                                                   draw_large_number(IntToStr(res), SecondHalf(sp)) >>
                                           ELSE <<>>)
                       [] OTHER     -> << draw_conclusion(
                                            IntToStr(num1) \o <<" ", "+", " ">> \o
                                            IntToStr(num2) \o <<" ", "=", " ">> \o
                                            IntToStr(res), sp) >>
          IN  Frame(MathAdditionStages, stage, sp, ops)
        ELSE create_step_by_step_frame(f, n, t, e, fs)

create_formula_explanation_frame(f, n, t, e, fs) ==
    LET stage == StageAt(FormulaStages, f, n)
        sp == LocalProgress(FormulaStages, stage, f, n)
        ops == CASE stage = 1 -> << draw_title(t, sp) >>
                 [] stage = 2 -> << draw_title(t, One) >>
                                 \o (IF Len(fs) > 0
                                     THEN << draw_centered_formula(fs[1], sp) >>
                                     ELSE <<>>)
                 [] stage = 3 -> << draw_title(t, One) >>
                                 \o (IF Len(fs) > 0
                                     THEN << draw_centered_formula(fs[1], One) >>
                                     ELSE <<>>)
                                 \o << draw_wrapped_explanation(e, sp) >>
                 [] OTHER     -> << draw_conclusion(IF Len(fs) > 0 THEN fs[1] ELSE t, sp) >>
    IN  Frame(FormulaStages, stage, sp, ops)

create_pythagorean_frame(f, n, t, e, fs) ==
    LET stage == StageAt(PythagoreanStages, f, n)
        sp == LocalProgress(PythagoreanStages, stage, f, n)
        ops == CASE stage = 1 -> << draw_title(t, sp) >>
                 [] stage = 2 -> << draw_title(t, One), draw_right_triangle(sp) >>
                 [] stage = 3 -> << draw_title(t, One), draw_right_triangle(One) >>
                                 \o (IF Len(fs) > 0
                                     THEN << draw_centered_formula(fs[1], sp) >>
                                     ELSE <<>>)
                 [] OTHER     -> << draw_conclusion(
                                      IF Len(fs) > 0 THEN fs[1] ELSE TxtDefaultPythag, sp) >>
    IN  Frame(PythagoreanStages, stage, sp, ops)

\* create_theorem_frame looking for "pythag" in the title as it is written
create_theorem_frame_case_sensitive(f, n, t, e, fs) ==
    IF Contains(t, KwPythag)
    THEN create_pythagorean_frame(f, n, t, e, fs)
    ELSE create_step_by_step_frame(f, n, t, e, fs)

create_theorem_frame(f, n, t, e, fs) ==
    IF Contains(Lower(t), KwPythag)
    THEN create_pythagorean_frame(f, n, t, e, fs)
    ELSE create_step_by_step_frame(f, n, t, e, fs)

\* create_frame painting onto the canvas of the frame drawn before instead
\* of a fresh background
create_frame_on_previous_canvas(kind, f, n, t, e, fs) ==
    LET fr == CASE kind = "math_addition" -> create_math_addition_frame(f, n, t, e, fs)
                [] kind = "math_formula"  -> create_formula_explanation_frame(f, n, t, e, fs)
                [] kind = "theorem"       -> create_theorem_frame(f, n, t, e, fs)
                [] OTHER                  -> create_step_by_step_frame(f, n, t, e, fs)
    IN  [fr EXCEPT !.ops = frame.ops \o @]

\* the if/elif dispatch in the frame loop of generate_video
create_frame(kind, f, n, t, e, fs) ==
    CASE kind = "math_addition" -> create_math_addition_frame(f, n, t, e, fs)
      [] kind = "math_formula"  -> create_formula_explanation_frame(f, n, t, e, fs)
      [] kind = "theorem"       -> create_theorem_frame(f, n, t, e, fs)
      [] OTHER                  -> create_step_by_step_frame(f, n, t, e, fs)

----------------------------------------------------------------------------
(* Requests used by the render and frame specifications *)

TxtFivePlusThree == <<"5"," ","+"," ","3">>
TxtSevenMinusFour == <<"7","-","4">>
TxtPythagorean == <<"P","y","t","h","a","g","o","r","e","a","n"," ","T","h","e","o","r","e","m">>
TxtOhmsLaw == <<"O","h","m","'","s"," ","L","a","w">>
TxtCells == <<"C","e","l","l","s">>
TxtTopFive == <<"T","o","p"," ","5">>
TxtSum == <<"a","d","d"," ","t","h","e","m">>
TxtTriangle == <<"r","i","g","h","t"," ","t","r","i","a","n","g","l","e">>
TxtBody == <<"s","o","m","e"," ","t","e","x","t",","," ","n","o"," ","n","u","m","b","e","r","s">>
TxtFormula == <<"a","=","b">>

Request(t, e, fs) == [topic |-> t, explanation |-> e, formulas |-> fs]

RenderRequests ==
    { Request(TxtFivePlusThree, TxtSum, <<>>),
      Request(TxtSevenMinusFour, <<>>, <<TxtFormula>>),
      Request(TxtPythagorean, TxtTriangle, <<TxtFormula>>),
      Request(TxtOhmsLaw, TxtBody, <<>>),
      Request(TxtCells, TxtBody, <<TxtFormula>>),
      Request(TxtCells, TxtBody, <<>>),
      Request(TxtTopFive, TxtBody, <<>>) }

----------------------------------------------------------------------------
(* EnhancedVideoGenerator.generate_video, one step per statement group *)

FPS == 30
WrapperDuration == 10

\* durations a render is started with: AnimationGenerator.generate_video
\* passes 10, a direct caller any number of seconds
Durations == (0..MaxDuration) \cup {WrapperDuration}

Init ==
    /\ \E r \in RenderRequests :
          /\ topic = r.topic
          /\ explanation = r.explanation
          /\ formulas = r.formulas
    /\ duration \in Durations
    /\ total_frames = 0
    /\ frame_num = 0
    /\ animation_type = "none"
    /\ frame = NoFrame
    /\ out = "none"
    /\ written = <<>>
    /\ result = "unset"
    /\ raised = FALSE
    /\ exc = "none"
    /\ routine = "none"
    /\ TaskLayerIdle
    /\ DirectIdle
    /\ pc = "call"

\* lines 37-56: open the writer, classify, compute the frame count
OpenWriter ==
    /\ pc = "call"
    /\ out' = "open"
    /\ animation_type' = detect_animation_type(topic, explanation, formulas)
    /\ total_frames' = duration * FPS
    /\ frame_num' = 0
    /\ pc' = "loop"
    /\ UNCHANGED <<taskVars, requestVars, directVars, frame, written, result, raised, routine, exc>>

\* lines 41-51: building the path or the writer raises
OpenWriterFault ==
    /\ pc = "call"
    /\ exc' = "open"
    /\ pc' = "except"
    /\ UNCHANGED <<taskVars, requestVars, directVars, total_frames, frame_num, animation_type, frame,
                   out, written, result, raised, routine>>

\* lines 59-78: draw frame frame_num
DrawFrame ==
    /\ pc = "loop"
    /\ frame_num < total_frames
    /\ frame' = create_frame(animation_type, frame_num, total_frames,
                             topic, explanation, formulas)
    /\ routine' = animation_type
    /\ pc' = "write"
    /\ UNCHANGED <<taskVars, requestVars, directVars, total_frames, frame_num, animation_type,
                   out, written, result, raised, exc>>

\* lines 59-78: a drawing primitive raises
DrawFault ==
    /\ pc = "loop"
    /\ frame_num < total_frames
    /\ exc' = "draw"
    /\ pc' = "except"
    /\ UNCHANGED <<taskVars, requestVars, directVars, total_frames, frame_num, animation_type, frame,
                   out, written, result, raised, routine>>
\* WriteFrame handing the frame to the encoder ahead of the earlier ones
WriteFrameOutOfOrder ==
    /\ pc = "write"
    /\ written' = <<frame_num>> \o written
    /\ frame_num' = frame_num + 1
    /\ pc' = "loop"
    /\ UNCHANGED <<taskVars, requestVars, directVars, total_frames, animation_type, frame,
                   out, result, raised, routine, exc>>

\* line 80: out.write(frame), then the next iteration
WriteFrame ==
    /\ pc = "write"
    /\ written' = Append(written, frame_num)
    /\ frame_num' = frame_num + 1
    /\ pc' = "loop"
    /\ UNCHANGED <<taskVars, requestVars, directVars, total_frames, animation_type, frame,
                   out, result, raised, routine, exc>>

\* line 80: out.write raises
WriteFault ==
    /\ pc = "write"
    /\ exc' = "write"
    /\ pc' = "except"
    /\ UNCHANGED <<taskVars, requestVars, directVars, total_frames, frame_num, animation_type, frame,
                   out, written, result, raised, routine>>

\* ReleaseAndReturn leaving the loop one frame early
ReleaseAndReturnEarly ==
    /\ pc = "loop"
    /\ frame_num + 1 >= total_frames
    /\ out' = "released"
    /\ result' = "path"
    /\ pc' = "done"
    /\ UNCHANGED <<taskVars, requestVars, directVars, total_frames, frame_num, animation_type, frame,
                   written, raised, routine, exc>>

\* lines 82-84: the loop is over: release the writer, return the path
ReleaseAndReturn ==
    /\ pc = "loop"
    /\ frame_num >= total_frames
    /\ out' = "released"
    /\ result' = "path"
    /\ pc' = "done"
    /\ UNCHANGED <<taskVars, requestVars, directVars, total_frames, frame_num, animation_type, frame,
                   written, raised, routine, exc>>

\* HandleException returning the path of the partial file
HandleExceptionPartial ==
    /\ pc = "except"
    /\ result' = "path"
    /\ pc' = "done"
    /\ UNCHANGED <<taskVars, requestVars, directVars, total_frames, frame_num, animation_type, frame,
                   out, written, raised, routine, exc>>

\* lines 86-90: except Exception: print, return None
HandleException ==
    /\ pc = "except"
    /\ result' = "None"
    /\ pc' = "done"
    /\ UNCHANGED <<taskVars, requestVars, directVars, total_frames, frame_num, animation_type, frame,
                   out, written, raised, routine, exc>>

Next ==
    \/ OpenWriter
    \/ OpenWriterFault
    \/ DrawFrame
    \/ DrawFault
    \/ WriteFrame
    \/ WriteFault
    \/ ReleaseAndReturn
    \/ HandleException

Spec == Init /\ [][Next]_vars

----------------------------------------------------------------------------
(* The frame routines invoked on their own, for any frame of any timeline *)

InitFrame ==
    /\ \E r \in RenderRequests :
          /\ topic = r.topic
          /\ explanation = r.explanation
          /\ formulas = r.formulas
    /\ duration = 0
    /\ total_frames \in 1..MaxTotalFrames
    /\ frame_num = 0
    /\ animation_type = "none"
    /\ frame = NoFrame
    /\ out = "none"
    /\ written = <<>>
    /\ result = "unset"
    /\ raised = FALSE
    /\ exc = "none"
    /\ routine = "none"
    /\ TaskLayerIdle
    /\ DirectIdle
    /\ pc = "frame_input"

InvokeRoutine(kind, f) ==
    /\ pc = "frame_input"
    /\ frame_num' = f
    /\ routine' = kind
    /\ frame' = create_frame(kind, f, total_frames, topic, explanation, formulas)
    /\ pc' = "frame_drawn"
    /\ UNCHANGED <<taskVars, requestVars, directVars, total_frames, animation_type, out, written,
                   result, raised, exc>>

InvokeMathAddition == \E f \in 0..(total_frames - 1) : InvokeRoutine("math_addition", f)
InvokeFormula == \E f \in 0..(total_frames - 1) : InvokeRoutine("math_formula", f)
InvokeTheorem == \E f \in 0..(total_frames - 1) : InvokeRoutine("theorem", f)
InvokeStepByStep == \E f \in 0..(total_frames - 1) : InvokeRoutine("step_by_step", f)

NextFrame ==
    \/ InvokeMathAddition
    \/ InvokeFormula
    \/ InvokeTheorem
    \/ InvokeStepByStep

SpecFrame == InitFrame /\ [][NextFrame]_vars

----------------------------------------------------------------------------
(* Properties of the timeline *)

StageStart(table, i) == table.local[i].sub
StageEnd(table, i) == table.local[i].sub + table.local[i].div

\* the stage ranges of a table tile 0..100 percent, and each "progress < b"
\* test sits at the end of its stage
Partitions(table) ==
    /\ Len(table.local) = Len(table.bounds) + 1
    /\ StageStart(table, 1) = 0
    /\ \A i \in 1..Len(table.local) : StageStart(table, i) < StageEnd(table, i)
    /\ \A i \in 1..Len(table.bounds) :
          /\ StageEnd(table, i) = StageStart(table, i + 1)
          /\ table.bounds[i] = StageEnd(table, i)
    /\ StageEnd(table, Len(table.local)) = 100

\* the stages of a table whose range [start, end) holds progress = f / n
StagesHolding(table, f, n) ==
    { i \in 1..Len(table.local) :
        /\ StageStart(table, i) * n <= 100 * f
        /\ 100 * f < StageEnd(table, i) * n }

\* C1: for each stage sequence the renderer implements (numeric addition,
\* formula walkthrough, Pythagorean theorem, generic step-by-step) the stage
\* ranges partition [0,1]: the first starts at 0, each stage ends where the
\* next starts, the last ends at 1.
C1_StagesPartition ==
    pc = "frame_drawn" =>
        /\ \A t \in StageTables : Partitions(t)
        /\ Partitions(TableNamed(frame.seq))

C1_Witness ==
    /\ pc = "frame_drawn"
    /\ frame.seq = "math_addition"
    /\ frame.stage = 6

\* C2: for every total frame count N >= 1 and every frame index in 0..N-1,
\* frame_num / N lies in exactly one stage of the active sequence, that stage
\* is the one the routine drew, and its local progress lies in [0,1].
C2_OneStageLocalInUnit ==
    pc = "frame_drawn" =>
        LET t == TableNamed(frame.seq)
        IN  /\ StagesHolding(t, frame_num, total_frames) = {frame.stage}
            /\ frame.local.d > 0
            /\ 0 <= frame.local.n
            /\ frame.local.n <= frame.local.d

C2_Witness ==
    /\ pc = "frame_drawn"
    /\ total_frames = 20
    /\ frame_num = 7
    /\ frame.seq = "math_addition"
    /\ frame.stage = 3
    /\ frame.local = [n |-> 0, d |-> 200]

NumericOps == {"objects_group", "large_number", "operator"}

\* the stage the 20/70/90 percent chain of the generic routine selects
GenericStage(f, n) ==
    IF 100 * f < 20 * n THEN 1
    ELSE IF 100 * f < 70 * n THEN 2
    ELSE IF 100 * f < 90 * n THEN 3
    ELSE 4

\* C6: when the numeric frame routine is invoked for a request with fewer
\* than two integers in title + " " + body, the frame is drawn with the
\* GenericStepByStep sequence (same stages and boundaries as a generic
\* request) and no numeric primitive runs.
C6_InsufficientOperandsFallBack ==
    (/\ pc = "frame_drawn"
     /\ routine = "math_addition"
     /\ Len(FindAllNumbers(topic \o <<" ">> \o explanation)) < 2)
    =>  /\ frame.seq = "step_by_step"
        /\ frame.stage = GenericStage(frame_num, total_frames)
        /\ \A k \in 1..Len(frame.ops) : frame.ops[k].op \notin NumericOps
        /\ frame = create_step_by_step_frame(frame_num, total_frames,
                                             topic, explanation, formulas)

C6_Witness ==
    /\ pc = "frame_drawn"
    /\ routine = "math_addition"
    /\ topic = TxtTopFive
    /\ Len(FindAllNumbers(topic \o <<" ">> \o explanation)) = 1
    /\ frame.seq = "step_by_step"
    /\ frame.stage = 2

----------------------------------------------------------------------------
(* Properties of generate_video *)

\* the frame numbers 0 .. n-1 in order
AllFrames(n) == [i \in 1..n |-> i - 1]

\* C7: generate_video has no partial-success mode: it returns a path only if
\* every one of the total frames was drawn and written; after an exception
\* while drawing or writing a frame it returns None and does not raise.
C7_NoPartialSuccess ==
    pc = "done" =>
        /\ ~raised
        /\ result \in {"path", "None"}
        /\ (exc # "none" => result = "None")
        /\ (result = "path" => exc = "none" /\ written = AllFrames(duration * FPS))

C7_Witness ==
    /\ pc = "done"
    /\ exc = "write"
    /\ Len(written) > 0
    /\ Len(written) < total_frames
    /\ result = "None"

\* C8: the video writer opened by a render is released on every exit path,
\* also when a frame raises mid-sequence.
C8_WriterReleasedOnEveryExit ==
    pc = "done" => out # "open"

\* C10: a successful render hands the encoder exactly duration x fps frames:
\* frame numbers 0 .. total-1, each written once, in the order drawn.
C10_ExactFrameCount ==
    (pc = "done" /\ result = "path") =>
        /\ Len(written) = duration * FPS
        /\ \A k \in 0..(duration * FPS - 1) :
              Cardinality({i \in 1..Len(written) : written[i] = k}) = 1

C10_Witness ==
    /\ pc = "done"
    /\ result = "path"
    /\ duration = 2
    /\ Len(written) = 60

----------------------------------------------------------------------------
(* Classification and operand extraction over generated titles and bodies: *)
(* a request is classified, then the final frame of a one-second render is *)
(* drawn by the routine the classification selects.                        *)

TokSeven == <<"7">>
TokZeroFour == <<"0","4">>
TokPlus == <<" ","+"," ">>
TokDiff == <<"9","-","2">>
TokTheorem == <<"T","h","e","o","r","e","m">>
TokLaw == <<"l","a","w">>

Tokens == {TokSeven, TokZeroFour, TokPlus, TokDiff, TokTheorem, TokLaw}

\* the texts made of at most k tokens
RECURSIVE TextsUpTo(_)
TextsUpTo(k) ==
    IF k = 0 THEN {<<>>}
    ELSE LET shorter == TextsUpTo(k - 1)
         IN  shorter \cup {t \o tok : t \in shorter, tok \in Tokens}

InitClassify ==
    /\ topic \in TextsUpTo(MaxTitleTokens)
    /\ explanation \in TextsUpTo(MaxBodyTokens)
    /\ formulas \in {<<>>, <<TxtFormula>>}
    /\ duration = 1
    /\ total_frames = 0
    /\ frame_num = 0
    /\ animation_type = "none"
    /\ frame = NoFrame
    /\ out = "none"
    /\ written = <<>>
    /\ result = "unset"
    /\ raised = FALSE
    /\ exc = "none"
    /\ routine = "none"
    /\ TaskLayerIdle
    /\ DirectIdle
    /\ pc = "classify_input"

\* line 54 and line 56
Classify ==
    /\ pc = "classify_input"
    /\ animation_type' = detect_animation_type(topic, explanation, formulas)
    /\ total_frames' = duration * FPS
    /\ pc' = "classified"
    /\ UNCHANGED <<taskVars, requestVars, directVars, frame_num, frame, out, written, result, raised,
                   exc, routine>>

\* lines 59-78, last iteration of the frame loop
DrawFinalFrame ==
    /\ pc = "classified"
    /\ frame_num' = total_frames - 1
    /\ frame' = create_frame(animation_type, total_frames - 1, total_frames,
                             topic, explanation, formulas)
    /\ routine' = animation_type
    /\ pc' = "final_drawn"
    /\ UNCHANGED <<taskVars, requestVars, directVars, total_frames, animation_type, out, written,
                   result, raised, exc>>

NextClassify ==
    \/ Classify
    \/ DrawFinalFrame

SpecClassify == InitClassify /\ [][NextClassify]_vars

Kinds == {"math_addition", "theorem", "math_formula", "step_by_step"}

\* the cues of a request
NumericCue == NumericPattern(Lower(topic)) \/ NumericPattern(Lower(explanation))
TitleKeyword == Contains(Lower(topic), KwTheorem) \/ Contains(Lower(topic), KwLaw)
BodyKeyword == Contains(Lower(explanation), KwTheorem) \/ Contains(Lower(explanation), KwLaw)
FormulaCue == Len(formulas) > 0

Classified == pc \in {"classified", "final_drawn"}

\* C3: classification is total with a fixed priority: a numeric-operator
\* pattern gives NumericCombination even with a theorem keyword or a formula;
\* otherwise the theorem/law keyword (in the title) gives GeometricTheorem
\* even with a formula; otherwise a highlighted expression gives
\* FormulaWalkthrough; otherwise GenericStepByStep.
C3_ClassifierPriority ==
    Classified =>
        /\ animation_type \in Kinds
        /\ (NumericCue => animation_type = "math_addition")
        /\ (~NumericCue /\ TitleKeyword => animation_type = "theorem")
        /\ (~NumericCue /\ ~TitleKeyword /\ FormulaCue => animation_type = "math_formula")
        /\ (~NumericCue /\ ~TitleKeyword /\ ~FormulaCue => animation_type = "step_by_step")

C3_Witness ==
    /\ Classified
    /\ ~NumericCue
    /\ TitleKeyword
    /\ FormulaCue
    /\ animation_type = "theorem"

\* C4 as claimed: with no numeric pattern, a body containing "theorem" or
\* "law" gives GeometricTheorem whether or not the title has the word.
C4_BodyKeywordGivesTheorem ==
    (Classified /\ ~NumericCue /\ BodyKeyword) => animation_type = "theorem"

\* C4 amended: the theorem cue is read from the title alone: with no numeric
\* pattern the request is GeometricTheorem exactly when the lower-cased title
\* contains "theorem" or "law", whatever the body contains.
C4_TitleKeywordDecidesTheorem ==
    (Classified /\ ~NumericCue) => (animation_type = "theorem" <=> TitleKeyword)

C4_Witness ==
    /\ Classified
    /\ ~NumericCue
    /\ BodyKeyword
    /\ ~TitleKeyword
    /\ animation_type # "theorem"

\* the positions where a maximal digit run of a text starts
RunStarts(s) ==
    { a \in 1..Len(s) : IsDigit(s[a]) /\ (a = 1 \/ ~IsDigit(s[a - 1])) }

\* the position where the run starting at a ends
RunEnd(s, a) ==
    CHOOSE b \in a..Len(s) :
        /\ \A k \in a..b : IsDigit(s[k])
        /\ (b = Len(s) \/ ~IsDigit(s[b + 1]))

\* the start of the k-th run from the left
NthRunStart(s, k) ==
    LET starts == RunStarts(s)
    IN  CHOOSE a \in starts : Cardinality({q \in starts : q < a}) = k - 1

RECURSIVE Pow10(_)
Pow10(k) == IF k = 0 THEN 1 ELSE 10 * Pow10(k - 1)

RECURSIVE SumDigits(_, _, _)
SumDigits(s, a, b) ==
    IF a > b THEN 0
    ELSE DigitVal(s[a]) * Pow10(b - a) + SumDigits(s, a + 1, b)

\* the value of the run starting at a
RunValue(s, a) == SumDigits(s, a, RunEnd(s, a))

\* C5: in a render with the NumericCombination sequence, num1 and num2 are
\* the first two integers of title + " " + body and the conclusion text is
\* "<num1> + <num2> = <num1+num2>", the sum also when the operator is "-".
C5_ConclusionIsSum ==
    (pc = "final_drawn" /\ frame.seq = "math_addition") =>
        LET s == topic \o <<" ">> \o explanation
            num1 == RunValue(s, NthRunStart(s, 1))
            num2 == RunValue(s, NthRunStart(s, 2))
        IN  /\ Cardinality(RunStarts(s)) >= 2
            /\ frame.stage = 6
            /\ Len(frame.ops) = 1
            /\ frame.ops[1].op = "conclusion"
            /\ frame.ops[1].text = IntToStr(num1) \o <<" ", "+", " ">> \o
                                   IntToStr(num2) \o <<" ", "=", " ">> \o
                                   IntToStr(num1 + num2)

C5_Witness ==
    /\ pc = "final_drawn"
    /\ frame.seq = "math_addition"
    /\ topic = TokSeven \o TokDiff
    /\ explanation = TokZeroFour
    /\ frame.ops[1].text = <<"7","9"," ","+"," ","2"," ","="," ","8","1">>

----------------------------------------------------------------------------
(* video_pipeline/video_generator.py: HybridVideoGenerator and generate_video *)

Raising(e) == [ret |-> "unset", raised |-> TRUE, error |-> e]
Ret(v) == [ret |-> v, raised |-> FALSE, error |-> "none"]

\* HybridVideoGenerator.__init__: text_gen exists only when use_ai is false
hybrid_init(ai_available, ai_init_ok) ==
    LET use_ai == ai_available /\ ai_init_ok
    IN  [use_ai |-> use_ai, has_text_gen |-> ~use_ai]

\* self.text_gen.create_video_from_answer(...): the text generator catches
\* its own exceptions and returns None; without the attribute the call raises
text_gen_create(gen, text_ok) ==
    IF gen.has_text_gen
    THEN Ret(IF text_ok THEN "path" ELSE "None")
    ELSE Raising("AttributeError")

\* HybridVideoGenerator.create_video_from_answer
create_video_from_answer(gen, images, animator_ok, text_ok) ==
    IF ~gen.use_ai
    THEN text_gen_create(gen, text_ok)
    ELSE LET tried == IF images = 0
                      THEN text_gen_create(gen, text_ok)
                      ELSE IF animator_ok
                           THEN Ret("path")
                           ELSE text_gen_create(gen, text_ok)
         IN  IF tried.raised
             THEN text_gen_create(gen, text_ok)
             ELSE tried

\* generate_video(script_scenes, video_id): the path is returned whatever
\* create_video_from_answer returned; produced keeps that inner result
generate_video(ai_available, ai_init_ok, images, animator_ok, text_ok) ==
    LET generator == hybrid_init(ai_available, ai_init_ok)
        video_path == create_video_from_answer(generator, images, animator_ok, text_ok)
    IN  IF video_path.raised
        THEN [ret |-> "unset", raised |-> TRUE, error |-> video_path.error,
              produced |-> "unset"]
        ELSE [ret |-> "path", raised |-> FALSE, error |-> "none",
              produced |-> video_path.ret]

----------------------------------------------------------------------------
(* app.py: /api/ask, /api/status and the background video task *)

TaskIds == 1..MaxAsks
Answers == {"A", "B"}
Null == <<>>

VideoUrl(task_id) == <<"/videos/", task_id, ".mp4">>

InitTask ==
    /\ topic = <<>>
    /\ explanation = <<>>
    /\ formulas = <<>>
    /\ duration = 0
    /\ total_frames = 0
    /\ frame_num = 0
    /\ animation_type = "none"
    /\ frame = NoFrame
    /\ out = "none"
    /\ written = <<>>
    /\ result = "unset"
    /\ raised = FALSE
    /\ exc = "none"
    /\ routine = "none"
    /\ pc = "serving"
    /\ AI_AVAILABLE \in BOOLEAN
    /\ video_tasks = <<>>
    /\ jobs = <<>>
    /\ response = NoResponse
    /\ DirectIdle

\* the task ids in use: stored, or drawn by a request still in flight
UsedIds == DOMAIN video_tasks \cup {jobs[j].task_id : j \in 1..Len(jobs)}

\* ask_question lines 130-146: a task id is drawn and the LLM answers.  The
\* eight-character uuid prefix is taken to be unused.
AskQuestion ==
    /\ pc = "serving"
    /\ Len(jobs) < MaxAsks
    /\ \E task_id \in TaskIds \ UsedIds : \E answer \in Answers :
          jobs' = Append(jobs, [task_id |-> task_id, answer |-> answer,
                                pc |-> "answered", produced |-> "unset",
                                error |-> "none", has_text_gen |-> FALSE,
                                ai_video |-> FALSE])
    /\ UNCHANGED <<renderVars, directVars, pc, AI_AVAILABLE, video_tasks, response>>
\* AskQuestionLLMError leaving a task entry behind for the failed request
AskQuestionLLMErrorStoring ==
    /\ pc = "serving"
    /\ response' = [op |-> "ask", code |-> 500, task_id |-> 0, status |-> "none"]
    /\ \E task_id \in TaskIds :
          video_tasks' = [t \in DOMAIN video_tasks \cup {task_id} |->
                             [status |-> "processing", answer |-> "A",
                              video_url |-> Null, error |-> "null"]]
    /\ UNCHANGED <<renderVars, directVars, pc, AI_AVAILABLE, jobs>>

\* ask_question, the LLM call raised or returned an error result
AskQuestionLLMError ==
    /\ pc = "serving"
    /\ response' = [op |-> "ask", code |-> 500, task_id |-> 0, status |-> "none"]
    /\ UNCHANGED <<renderVars, directVars, pc, AI_AVAILABLE, video_tasks, jobs>>
\* StoreEntry initialising every entry of the store, not only the new one
StoreEntryResettingAll(j) ==
    /\ jobs[j].pc = "answered"
    /\ video_tasks' =
          [t \in DOMAIN video_tasks \cup {jobs[j].task_id} |->
              [status |-> "processing", answer |-> jobs[j].answer,
               video_url |-> Null, error |-> "null"]]
    /\ jobs' = [jobs EXCEPT ![j].pc = "stored"]
    /\ UNCHANGED <<renderVars, directVars, pc, AI_AVAILABLE, response>>

\* ask_question lines 148-154: video_tasks[task_id] = {...}
StoreEntry(j) ==
    /\ jobs[j].pc = "answered"
    /\ video_tasks' =
          [t \in DOMAIN video_tasks \cup {jobs[j].task_id} |->
              IF t = jobs[j].task_id
              THEN [status |-> "processing", answer |-> jobs[j].answer,
                    video_url |-> Null, error |-> "null"]
              ELSE video_tasks[t]]
    /\ jobs' = [jobs EXCEPT ![j].pc = "stored"]
    /\ UNCHANGED <<renderVars, directVars, pc, AI_AVAILABLE, response>>

\* ask_question lines 158-162: background_tasks.add_task(...)
AddTask(j) ==
    /\ jobs[j].pc = "stored"
    /\ jobs' = [jobs EXCEPT ![j].pc = "added"]
    /\ UNCHANGED <<renderVars, directVars, pc, AI_AVAILABLE, video_tasks, response>>
\* Respond returning the task id before the entry is stored
RespondBeforeStore(j) ==
    /\ jobs[j].pc = "answered"
    /\ response' = [op |-> "ask", code |-> 200, task_id |-> jobs[j].task_id,
                    status |-> "processing"]
    /\ jobs' = [jobs EXCEPT ![j].pc = "scheduled"]
    /\ UNCHANGED <<renderVars, directVars, pc, AI_AVAILABLE, video_tasks>>

\* ask_question lines 164-170: the response is returned; the background
\* tasks of a request start once its response is sent
Respond(j) ==
    /\ jobs[j].pc = "added"
    /\ response' = [op |-> "ask", code |-> 200, task_id |-> jobs[j].task_id,
                    status |-> "processing"]
    /\ jobs' = [jobs EXCEPT ![j].pc = "scheduled"]
    /\ UNCHANGED <<renderVars, directVars, pc, AI_AVAILABLE, video_tasks>>

\* get_task_status
GetTaskStatus ==
    /\ pc = "serving"
    /\ \E task_id \in TaskIds :
          response' = IF task_id \in DOMAIN video_tasks
                      THEN [op |-> "status", code |-> 200, task_id |-> task_id,
                            status |-> video_tasks[task_id].status]
                      ELSE [op |-> "status", code |-> 404, task_id |-> task_id,
                            status |-> "none"]
    /\ UNCHANGED <<renderVars, directVars, pc, AI_AVAILABLE, video_tasks, jobs>>
\* RunGenerate of a background task that can be cancelled before it reports
RunGenerateCancellable(j) ==
    /\ jobs[j].pc = "scheduled"
    /\ jobs' = [jobs EXCEPT ![j].pc = "done"]
    /\ UNCHANGED <<renderVars, directVars, pc, AI_AVAILABLE, video_tasks, response>>

\* generate_video_task lines 225-232: script, then generate_video.  The job
\* keeps whether the generator had a text generator and whether the AI path
\* produced the video.
RunGenerate(j) ==
    /\ jobs[j].pc = "scheduled"
    /\ \E ai_init_ok \in BOOLEAN, images \in 0..1, animator_ok \in BOOLEAN,
          text_ok \in BOOLEAN :
          LET r == generate_video(AI_AVAILABLE, ai_init_ok, images, animator_ok, text_ok)
              generator == hybrid_init(AI_AVAILABLE, ai_init_ok)
          IN  jobs' = [jobs EXCEPT ![j] =
                          [@ EXCEPT !.pc = IF r.raised THEN "except" ELSE "update",
                                    !.produced = r.produced,
                                    !.error = r.error,
                                    !.has_text_gen = generator.has_text_gen,
                                    !.ai_video = generator.use_ai /\ images > 0
                                                 /\ animator_ok]]
    /\ UNCHANGED <<renderVars, directVars, pc, AI_AVAILABLE, video_tasks, response>>

\* line 235
SetCompleted(j) ==
    /\ jobs[j].pc = "update"
    /\ video_tasks' = [video_tasks EXCEPT ![jobs[j].task_id].status = "completed"]
    /\ jobs' = [jobs EXCEPT ![j].pc = "update_url"]
    /\ UNCHANGED <<renderVars, directVars, pc, AI_AVAILABLE, response>>

\* line 236
SetVideoUrl(j) ==
    /\ jobs[j].pc = "update_url"
    /\ video_tasks' = [video_tasks EXCEPT
                          ![jobs[j].task_id].video_url = VideoUrl(jobs[j].task_id)]
    /\ jobs' = [jobs EXCEPT ![j].pc = "done"]
    /\ UNCHANGED <<renderVars, directVars, pc, AI_AVAILABLE, response>>

\* line 240
SetFailed(j) ==
    /\ jobs[j].pc = "except"
    /\ video_tasks' = [video_tasks EXCEPT ![jobs[j].task_id].status = "failed"]
    /\ jobs' = [jobs EXCEPT ![j].pc = "except_error"]
    /\ UNCHANGED <<renderVars, directVars, pc, AI_AVAILABLE, response>>

\* line 241
SetError(j) ==
    /\ jobs[j].pc = "except_error"
    /\ video_tasks' = [video_tasks EXCEPT ![jobs[j].task_id].error = jobs[j].error]
    /\ jobs' = [jobs EXCEPT ![j].pc = "done"]
    /\ UNCHANGED <<renderVars, directVars, pc, AI_AVAILABLE, response>>

\* ask_question: one step of one request in flight
StoreEntryStep == \E j \in 1..Len(jobs) : StoreEntry(j)
AddTaskStep == \E j \in 1..Len(jobs) : AddTask(j)
RespondStep == \E j \in 1..Len(jobs) : Respond(j)

\* generate_video_task: one step of one background task
RunGenerateStep == \E j \in 1..Len(jobs) : RunGenerate(j)
SetCompletedStep == \E j \in 1..Len(jobs) : SetCompleted(j)
SetVideoUrlStep == \E j \in 1..Len(jobs) : SetVideoUrl(j)
SetFailedStep == \E j \in 1..Len(jobs) : SetFailed(j)
SetErrorStep == \E j \in 1..Len(jobs) : SetError(j)

NextTask ==
    \/ AskQuestion
    \/ AskQuestionLLMError
    \/ StoreEntryStep
    \/ AddTaskStep
    \/ RespondStep
    \/ GetTaskStatus
    \/ RunGenerateStep
    \/ SetCompletedStep
    \/ SetVideoUrlStep
    \/ SetFailedStep
    \/ SetErrorStep

SpecTask == InitTask /\ [][NextTask]_vars

\* C9: the background task reports the true outcome: a task is completed
\* with a video path only when the generator produced a video, and when the
\* generator yields no video the task is failed with a non-null error.
C9_TaskReportsTrueOutcome ==
    \A j \in 1..Len(jobs) :
        jobs[j].pc = "done" =>
            LET task == video_tasks[jobs[j].task_id]
            IN  /\ (task.status = "completed" => jobs[j].produced = "path")
                /\ (jobs[j].produced # "path" =>
                        task.status = "failed" /\ task.error # "null")

----------------------------------------------------------------------------
(* Order of the frames of one render *)

\* C11: frames are rendered strictly sequentially.  At every point of a
\* render the frames handed to the encoder are 0, 1, 2, ... in strictly
\* increasing order with none missing, the frame being drawn or awaiting its
\* write is the one right after the last frame written, and a drawn frame
\* that awaits its write is the frame of the loop counter.
C11_FramesStrictlySequential ==
    /\ \A i \in 1..Len(written) : written[i] = i - 1
    /\ \A i \in 2..Len(written) : written[i - 1] < written[i]
    /\ pc \in {"loop", "write"} => frame_num = Len(written)
    /\ pc = "write" =>
           frame = create_frame(animation_type, Len(written), total_frames,
                                topic, explanation, formulas)

C11_Witness ==
    /\ pc = "write"
    /\ frame_num = 3
    /\ written = <<0, 1, 2>>
    /\ frame # NoFrame

----------------------------------------------------------------------------
(* The frame routine of one request invoked repeatedly, in any order of
   frame indices.  Every invocation is line 62-78 of generate_video for the
   routine the request was classified to, or any other routine. *)

RoutineKinds == {"math_addition", "math_formula", "theorem", "step_by_step"}

InitRedraw ==
    /\ \E r \in RenderRequests :
          /\ topic = r.topic
          /\ explanation = r.explanation
          /\ formulas = r.formulas
    /\ duration = 0
    /\ total_frames \in 1..MaxRedrawFrames
    /\ frame_num = 0
    /\ animation_type \in RoutineKinds
    /\ frame = NoFrame
    /\ out = "none"
    /\ written = <<>>
    /\ result = "unset"
    /\ raised = FALSE
    /\ exc = "none"
    /\ routine = "none"
    /\ TaskLayerIdle
    /\ DirectIdle
    /\ pc = "redraw"

\* one more invocation of the routine, for any frame index
Redraw ==
    /\ pc = "redraw"
    /\ Len(drawn) < MaxDraws
    /\ \E f \in 0..(total_frames - 1) :
          /\ frame_num' = f
          /\ frame' = create_frame(animation_type, f, total_frames,
                                   topic, explanation, formulas)
          /\ drawn' = Append(drawn, [num |-> f, frame |-> frame'])
    /\ routine' = animation_type
    /\ UNCHANGED <<taskVars, requestVars, primitiveArgs, helperVars, total_frames,
                   animation_type, out, written, result, raised, exc, pc>>

NextRedraw == Redraw

SpecRedraw == InitRedraw /\ [][NextRedraw]_vars

----------------------------------------------------------------------------
(* The task layer under fair scheduling: a request handler that has started
   runs to its return, and a background task added to a response runs once
   the response is sent (Starlette runs it in the worker pool; app.py has no
   cancel operation). *)

SpecTaskFair ==
    /\ InitTask
    /\ [][NextTask]_vars
    /\ WF_vars(StoreEntryStep)
    /\ WF_vars(AddTaskStep)
    /\ WF_vars(RespondStep)
    /\ WF_vars(RunGenerateStep)
    /\ WF_vars(SetCompletedStep)
    /\ WF_vars(SetVideoUrlStep)
    /\ WF_vars(SetFailedStep)
    /\ WF_vars(SetErrorStep)

Processing(t) == t \in DOMAIN video_tasks /\ video_tasks[t].status = "processing"

Settled(t) ==
    t \in DOMAIN video_tasks /\ video_tasks[t].status \in {"completed", "failed"}

\* C13: every task created by /api/ask eventually leaves "processing": its
\* status becomes "completed" or "failed".
C13_TaskEventuallySettles ==
    \A t \in TaskIds : Processing(t) ~> Settled(t)

\* one task settled as completed while another settled as failed
C13_Witness ==
    \E t \in DOMAIN video_tasks, u \in DOMAIN video_tasks :
        /\ video_tasks[t].status = "completed"
        /\ video_tasks[u].status = "failed"
        /\ \A j \in 1..Len(jobs) : jobs[j].pc = "done"

----------------------------------------------------------------------------
(* The text primitives invoked directly on a blank canvas *)

\* word lengths of which two fit a line only when both are the shorter one
WordLens == {34, 36}
\* with a one-letter word and a word longer than a line
MixedLens == {1, 34, 36, 71}

Paragraphs ==
    UNION {[1..k -> WordLens] : k \in 0..MaxWords}
    \cup UNION {[1..k -> MixedLens] : k \in 0..MaxMixedWords}

Glyphs == <<"a", "b", "c", "d", "e", "f", "g">>

TextOfLength(k) == [i \in 1..k |-> Glyphs[((i - 1) % Len(Glyphs)) + 1]]

Alphas == {[n |-> k, d |-> AlphaSteps] : k \in 0..AlphaSteps}

InitPrimitive ==
    /\ topic = <<>>
    /\ explanation = <<>>
    /\ formulas = <<>>
    /\ duration = 0
    /\ total_frames = 0
    /\ frame_num = 0
    /\ animation_type = "none"
    /\ frame = NoFrame
    /\ out = "none"
    /\ written = <<>>
    /\ result = "unset"
    /\ raised = FALSE
    /\ exc = "none"
    /\ routine = "none"
    /\ TaskLayerIdle
    /\ HelpersIdle
    /\ drawn = <<>>
    /\ arg_alpha \in Alphas
    /\ \/ /\ arg_text = <<>>
          /\ arg_words \in Paragraphs
          /\ arg_count = 0
       \/ /\ arg_text \in {TextOfLength(k) : k \in 1..MaxTextLen}
          /\ arg_words = WordLengths(arg_text)
          /\ arg_count = 0
       \/ /\ arg_text \in {<<>>, LblFirst}
          /\ arg_words = WordLengths(arg_text)
          /\ arg_count \in 0..MaxCount
    /\ pc = "primitive_input"

\* the primitive paints on a canvas of the background colour
InvokePrimitive(name, op) ==
    /\ pc = "primitive_input"
    /\ routine' = name
    /\ frame' = [NoFrame EXCEPT !.ops = <<op>>]
    /\ pc' = "primitive_drawn"
    /\ UNCHANGED <<taskVars, requestVars, directVars, total_frames, frame_num,
                   animation_type, out, written, result, raised, exc>>

DrawTitle == arg_text # <<>> /\ InvokePrimitive("title", draw_title(arg_text, arg_alpha))

DrawCenteredFormula ==
    arg_text # <<>> /\ InvokePrimitive("centered_formula", draw_centered_formula(arg_text, arg_alpha))

DrawConclusion == arg_text # <<>> /\ InvokePrimitive("conclusion", draw_conclusion(arg_text, arg_alpha))

DrawWrappedExplanation ==
    InvokePrimitive("wrapped_explanation", wrapped_explanation_of(arg_text, arg_words, arg_alpha))

\* the gallery, with no label or with the label of the first group
DrawObjectsGroup ==
    /\ arg_text \in {<<>>, LblFirst}
    /\ arg_words = WordLengths(arg_text)
    /\ InvokePrimitive("objects_group", draw_objects_group(arg_count, arg_alpha, arg_text))

DrawRightTriangle ==
    /\ arg_text = <<>>
    /\ arg_words = <<>>
    /\ arg_count = 0
    /\ InvokePrimitive("right_triangle", draw_right_triangle(arg_alpha))

NextPrimitive ==
    \/ DrawObjectsGroup
    \/ DrawRightTriangle
    \/ DrawTitle
    \/ DrawCenteredFormula
    \/ DrawConclusion
    \/ DrawWrappedExplanation

SpecPrimitive == InitPrimitive /\ [][NextPrimitive]_vars

----------------------------------------------------------------------------
(* Properties of the wrapped paragraph *)

WrappedDrawn == pc = "primitive_drawn" /\ routine = "wrapped_explanation"

\* the positions of the words of the lines, line after line
RECURSIVE Flatten(_)
Flatten(lines) == IF lines = <<>> THEN <<>> ELSE Head(lines) \o Flatten(Tail(lines))

\* the characters of a line: its words and one space between neighbours
RECURSIVE LineChars(_, _)
LineChars(lens, line) ==
    IF line = <<>> THEN 0
    ELSE lens[Head(line)] + (IF Len(line) > 1 THEN 1 ELSE 0) + LineChars(lens, Tail(line))

\* C14: the paragraph wraps greedily by words.  For a text with no word
\* longer than 70 characters every line has at most 70 characters, the lines
\* hold the words in their original order with none dropped before the cap,
\* a line ends only where the next word would not fit, and at most 10 lines
\* are kept.
C14_GreedyWrap ==
    (WrappedDrawn /\ \A i \in 1..Len(arg_words) : arg_words[i] <= 70) =>
        LET lines == frame.ops[1].lines
            kept == Flatten(lines)
        IN  /\ Len(lines) <= 10
            /\ \A l \in 1..Len(lines) :
                  /\ lines[l] # <<>>
                  /\ LineChars(arg_words, lines[l]) <= 70
            /\ kept = [i \in 1..Len(kept) |-> i]
            /\ Len(kept) <= Len(arg_words)
            /\ Len(lines) < 10 => Len(kept) = Len(arg_words)
            /\ \A l \in 1..(Len(lines) - 1) :
                  LineChars(arg_words, lines[l]) + 1 + arg_words[Head(lines[l + 1])] > 70

\* eleven lines' worth of words: the cap drops the eleventh; a line of two
\* words and lines of one word are among the ten kept
C14_Witness ==
    /\ WrappedDrawn
    /\ Len(arg_words) = 11
    /\ arg_words[1] = 34
    /\ arg_words[2] = 34
    /\ \A i \in 3..11 : arg_words[i] = 36
    /\ Len(frame.ops[1].lines) = 10
    /\ frame.ops[1].lines[1] = <<1, 2>>
    /\ frame.ops[1].lines[10] = <<11>>

\* k = floor(x) for the fraction x = num / den, den > 0
IsFloor(k, num, den) == k * den <= num /\ num < (k + 1) * den

\* C15: the number of lines drawn at alpha in [0,1] is
\* min(lineCount, floor(lineCount * alpha) + 1): floor(lineCount / 2) + 1 at
\* alpha 0.5 for a paragraph with words, lineCount at alpha 1, never less
\* than at a smaller alpha, and 0 when the text has no words; the lines
\* drawn are the first ones.
C15_LinesShown ==
    WrappedDrawn =>
        LET op == frame.ops[1]
            lineCount == Len(op.lines)
        IN  /\ \E k \in 0..lineCount :
                  /\ IsFloor(k, lineCount * arg_alpha.n, arg_alpha.d)
                  /\ op.count = IF lineCount < k + 1 THEN lineCount ELSE k + 1
            /\ (2 * arg_alpha.n = arg_alpha.d /\ lineCount > 0) =>
                  op.count = (lineCount \div 2) + 1
            /\ arg_alpha.n = arg_alpha.d => op.count = lineCount
            /\ \A b \in Alphas :
                  b.n <= arg_alpha.n => num_lines_to_show(lineCount, b) <= op.count
            /\ arg_words = <<>> => op.count = 0
            /\ op.shown = SubSeq(op.lines, 1, op.count)

\* seven lines at alpha 0.5: four of them are drawn
C15_Witness ==
    /\ WrappedDrawn
    /\ 2 * arg_alpha.n = arg_alpha.d
    /\ Len(frame.ops[1].lines) = 7
    /\ frame.ops[1].count = 4
    /\ Len(frame.ops[1].shown) = 4

----------------------------------------------------------------------------
(* Truncation of the title, the formula and the conclusion *)

TextCap ==
    CASE routine = "title" -> 50
      [] routine = "centered_formula" -> 60
      [] routine = "conclusion" -> 40
      [] OTHER -> 0

\* C16: a title longer than 50 characters is drawn as its first 47
\* characters followed by "..." (50 in total), a formula longer than 60 as
\* its first 57 followed by "...", a conclusion longer than 40 as its first
\* 37 followed by "..."; a text at or below its cap is drawn as it is.
C16_TruncatedAtCap ==
    (pc = "primitive_drawn" /\ TextCap > 0) =>
        LET shown == frame.ops[1].shown
        IN  /\ frame.ops[1].text = arg_text
            /\ Len(arg_text) <= TextCap => shown = arg_text
            /\ Len(arg_text) > TextCap =>
                  /\ Len(shown) = TextCap
                  /\ \A i \in 1..(TextCap - 3) : shown[i] = arg_text[i]
                  /\ \A i \in (TextCap - 2)..TextCap : shown[i] = "."

\* a formula of 61 characters is drawn as 57 of them and three dots
C16_Witness ==
    /\ pc = "primitive_drawn"
    /\ routine = "centered_formula"
    /\ Len(arg_text) = 61
    /\ Len(frame.ops[1].shown) = 60
    /\ frame.ops[1].shown[57] = arg_text[57]
    /\ frame.ops[1].shown[58] = "."

----------------------------------------------------------------------------
(* The fallback of the hybrid generator *)

\* the background tasks whose generate_video call is over
Generated == {j \in 1..Len(jobs) :
                jobs[j].pc \in {"update", "update_url", "except", "except_error", "done"}}

\* C17: whenever the AI path does not produce a video, a text fallback
\* generator exists and create_video_from_answer returns its result instead
\* of raising.
C17_DegradesToTextGenerator ==
    \A j \in Generated :
        ~jobs[j].ai_video =>
            /\ jobs[j].has_text_gen
            /\ jobs[j].error = "none"
            /\ jobs[j].produced \in {"path", "None"}

----------------------------------------------------------------------------
(* Order of the steps of /api/ask *)

\* the requests whose response, with its task id, has been returned
Returned == {j \in 1..Len(jobs) : jobs[j].pc \notin {"answered", "stored", "added"}}

\* C18: the task entry is stored with status "processing" before the
\* background task is added and before the response is returned.  So the
\* entry of every added or returned task exists, it is "processing" until
\* the background task reports, a successful /api/ask response names a
\* stored task, and a status query that answers 404 is for an id that no
\* response has returned.
C18_EntryStoredFirst ==
    /\ \A j \in 1..Len(jobs) :
          jobs[j].pc # "answered" => jobs[j].task_id \in DOMAIN video_tasks
    /\ \A j \in 1..Len(jobs) :
          jobs[j].pc \in {"stored", "added", "scheduled", "update", "except"} =>
              video_tasks[jobs[j].task_id].status = "processing"
    /\ (response.op = "ask" /\ response.code = 200) =>
          response.task_id \in DOMAIN video_tasks
    /\ (response.op = "status" /\ response.code = 404) =>
          \A j \in Returned : jobs[j].task_id # response.task_id

\* a status query for a returned task id, answered before the background
\* task has run
C18_Witness ==
    /\ response.op = "status"
    /\ response.code = 200
    /\ response.status = "processing"
    /\ \E j \in Returned :
          /\ jobs[j].task_id = response.task_id
          /\ jobs[j].pc = "scheduled"

----------------------------------------------------------------------------
(* Transitions of a task's status *)

\* this step is not a step of the request or background task of task t
NotOwnStep(t) ==
    \A j \in 1..Len(jobs) : jobs[j].task_id = t => jobs'[j] = jobs[j]

\* C19: a task's status only moves from "processing" to "completed" or from
\* "processing" to "failed".  Once a task is completed or failed its status
\* and stored answer never change, and no status query, no /api/ask for
\* another task and no step of another task's background job changes its
\* status, video_url, error or answer.
C19_SettledTaskIsFinal ==
    [][\A t \in DOMAIN video_tasks :
          /\ t \in DOMAIN video_tasks'
          /\ video_tasks'[t].status # video_tasks[t].status =>
                /\ video_tasks[t].status = "processing"
                /\ video_tasks'[t].status \in {"completed", "failed"}
          /\ Settled(t) =>
                /\ video_tasks'[t].status = video_tasks[t].status
                /\ video_tasks'[t].answer = video_tasks[t].answer
          /\ (Settled(t) /\ NotOwnStep(t)) => video_tasks'[t] = video_tasks[t]
      ]_vars

\* a completed task was queried while the background job of another task
\* is between its two writes
C19_Witness ==
    \E j \in 1..Len(jobs), k \in 1..Len(jobs) :
        /\ jobs[j].pc = "done"
        /\ video_tasks[jobs[j].task_id].status = "completed"
        /\ video_tasks[jobs[j].task_id].video_url = VideoUrl(jobs[j].task_id)
        /\ jobs[k].pc = "except_error"
        /\ response.op = "status"
        /\ response.task_id = jobs[j].task_id
        /\ response.status = "completed"

----------------------------------------------------------------------------
(* Shape of a task entry *)

\* C20: in every reachable state each task's status is "processing",
\* "completed" or "failed"; a completed task has video_url
\* "/videos/<task_id>.mp4" and a null error, a failed task has a non-null
\* error and a null video_url, a processing task has both null.
C20_StatusDeterminesFields ==
    \A t \in DOMAIN video_tasks :
        LET task == video_tasks[t]
        IN  /\ task.status \in {"processing", "completed", "failed"}
            /\ task.status = "completed" =>
                  task.video_url = VideoUrl(t) /\ task.error = "null"
            /\ task.status = "failed" =>
                  task.error # "null" /\ task.video_url = Null
            /\ task.status = "processing" =>
                  task.video_url = Null /\ task.error = "null"

----------------------------------------------------------------------------
(* /api/ask when the LLM fails *)

\* C21: when the LLM call raises or returns an error result, /api/ask
\* responds with HTTP 500, and that step stores no task entry and adds no
\* background task: the task store and the job list are as before.
C21_LLMErrorLeavesStoreUnchanged ==
    [][(response' # response /\ response'.op = "ask" /\ response'.code = 500) =>
          /\ video_tasks' = video_tasks
          /\ jobs' = jobs
          /\ response'.task_id \notin TaskIds
      ]_vars

\* a request failed on the LLM after an earlier one had created a task
C21_Witness ==
    /\ response.op = "ask"
    /\ response.code = 500
    /\ DOMAIN video_tasks # {}
    /\ \E j \in 1..Len(jobs) : jobs[j].pc = "scheduled"

----------------------------------------------------------------------------
(* Order of the stages within one render *)

HasOp(fr, name) == \E k \in 1..Len(fr.ops) : fr.ops[k].op = name

HasGroup(fr, label) ==
    \E k \in 1..Len(fr.ops) : fr.ops[k].op = "objects_group" /\ fr.ops[k].text = label

\* what a frame of the NumericCombination sequence shows in each stage:
\* Title, GroupA, "+" operator, GroupB, combine, Conclusion
NumericStageShown(fr) ==
    CASE fr.stage = 1 -> Len(fr.ops) = 1 /\ HasOp(fr, "title")
      [] fr.stage = 2 -> HasGroup(fr, LblFirst) /\ ~HasOp(fr, "operator")
      [] fr.stage = 3 -> /\ HasGroup(fr, LblFirst) /\ ~HasGroup(fr, LblSecond)
                         /\ fr.ops[Len(fr.ops)].op = "operator"
                         /\ fr.ops[Len(fr.ops)].text = <<"+">>
      [] fr.stage = 4 -> HasGroup(fr, LblFirst) /\ HasGroup(fr, LblSecond)
      [] fr.stage = 5 -> HasGroup(fr, <<>>) /\ ~HasGroup(fr, LblFirst)
      [] fr.stage = 6 -> Len(fr.ops) = 1 /\ HasOp(fr, "conclusion")
      [] OTHER -> FALSE

\* C22: within one render (of at least 20 frames) the active stage index
\* never decreases from one frame to the next and never skips a stage;
\* frame 0 is in the Title stage and the last frame in the Conclusion
\* stage, so every stage of the sequence is visited in its listed order;
\* a NumericCombination render shows Title, GroupA, "+", GroupB, combine,
\* Conclusion in that order.
C22_StagesVisitedInOrder ==
    [][(pc = "loop" /\ pc' = "write" /\ total_frames >= 20) =>
          /\ frame_num = 0 =>
                /\ frame'.stage = 1
                /\ frame'.ops = <<draw_title(topic, [n |-> 0, d |-> frame'.local.d])>>
          /\ frame_num > 0 =>
                /\ frame'.seq = frame.seq
                /\ frame'.stage \in {frame.stage, frame.stage + 1}
          /\ frame_num = total_frames - 1 =>
                /\ frame'.stage = Len(TableNamed(frame'.seq).bounds) + 1
                /\ HasOp(frame', "conclusion")
          /\ frame'.seq = "math_addition" => NumericStageShown(frame')
      ]_vars

\* a numeric render that has reached the GroupB stage
C22_Witness ==
    /\ pc = "write"
    /\ total_frames = 30
    /\ frame.seq = "math_addition"
    /\ frame.stage = 4
    /\ frame_num = 14
    /\ written = AllFrames(14)

----------------------------------------------------------------------------
(* Operands of a request classified as numeric *)

\* C23: whenever the classifier returns NumericCombination, title + " " +
\* body holds at least two integers, so the numeric routine of that render
\* has both operands: its frame is drawn with the NumericCombination
\* sequence and never with the insufficient-operand fallback.
C23_NumericHasTwoOperands ==
    (Classified /\ animation_type = "math_addition") =>
        /\ Cardinality(RunStarts(topic \o <<" ">> \o explanation)) >= 2
        /\ pc = "final_drawn" =>
              /\ routine = "math_addition"
              /\ frame.seq = "math_addition"
              /\ frame.ops[1].op = "conclusion"

\* "7 + 04": classified numeric, drawn with the numeric sequence
C23_Witness ==
    /\ pc = "final_drawn"
    /\ animation_type = "math_addition"
    /\ topic = TokSeven \o TokPlus \o TokZeroFour
    /\ explanation = <<>>
    /\ frame.seq = "math_addition"
    /\ frame.stage = 6

----------------------------------------------------------------------------
(* The sequence of a theorem request *)

\* the stage the 15/50/75 percent chain of the triangle routine selects
TriangleStage(f, n) ==
    IF 100 * f < 15 * n THEN 1
    ELSE IF 100 * f < 50 * n THEN 2
    ELSE IF 100 * f < 75 * n THEN 3
    ELSE 4

\* C24: a request classified GeometricTheorem is drawn with the
\* triangle-diagram sequence (boundaries 15/50/75%) exactly when its title
\* contains "pythag" in any letter case; every other theorem request is
\* drawn with the stages and boundaries of GenericStepByStep (20/70/90%),
\* frame for frame as the generic routine draws it.
C24_PythagSelectsTriangle ==
    (/\ pc = "frame_drawn"
     /\ routine = "theorem"
     /\ detect_animation_type(topic, explanation, formulas) = "theorem")
    =>  IF Contains(Lower(topic), KwPythag)
        THEN /\ frame.seq = "pythagorean"
             /\ frame.stage = TriangleStage(frame_num, total_frames)
        ELSE /\ frame.seq = "step_by_step"
             /\ frame.stage = GenericStage(frame_num, total_frames)
             /\ \A k \in 1..Len(frame.ops) : frame.ops[k].op # "right_triangle"
             /\ frame = create_step_by_step_frame(frame_num, total_frames,
                                                  topic, explanation, formulas)

\* "Pythagorean Theorem", written with a capital P, in the triangle stage
C24_Witness ==
    /\ pc = "frame_drawn"
    /\ routine = "theorem"
    /\ topic = TxtPythagorean
    /\ frame.seq = "pythagorean"
    /\ frame.stage = 2
    /\ \E k \in 1..Len(frame.ops) : frame.ops[k].op = "right_triangle"

----------------------------------------------------------------------------
(* Properties of the gallery *)

GalleryDrawn == pc = "primitive_drawn" /\ routine = "objects_group"

\* C25: the gallery reveals exactly floor(min(count, 10) * alpha) markers,
\* never more than 10, each in its own cell of a grid of at most 5
\* columns filled row by row; for every count >= 0 and alpha in [0,1] it
\* completes, and it paints nothing when that number is 0, count = 0
\* included.
C25_GalleryReveals ==
    GalleryDrawn =>
        LET op == frame.ops[1]
            visible == IF arg_count < 10 THEN arg_count ELSE 10
            shown == Len(op.markers)
        IN  /\ Len(frame.ops) = 1
            /\ IsFloor(shown, visible * arg_alpha.n, arg_alpha.d)
            /\ shown <= 10
            /\ \A i \in 1..shown :
                  /\ op.markers[i].col \in 0..4
                  /\ op.markers[i].row \in 0..1
            /\ \A i \in 1..shown, j \in 1..shown :
                  i < j => /\ op.markers[i] # op.markers[j]
                           /\ op.markers[i].row <= op.markers[j].row
            /\ shown = 0 => op.shown = <<>> /\ op.suffix = <<>>
            /\ arg_count = 0 => shown = 0

\* twelve objects at alpha 0.7: seven markers, five in the first row
C25_Witness ==
    /\ GalleryDrawn
    /\ arg_count = 12
    /\ 10 * arg_alpha.n = 7 * arg_alpha.d
    /\ Len(frame.ops[1].markers) = 7
    /\ frame.ops[1].markers[5] = [row |-> 0, col |-> 4]
    /\ frame.ops[1].markers[6] = [row |-> 1, col |-> 0]

\* C26 as stated: with a count above 10 the count text is drawn once alpha
\* reaches 1 and at no smaller alpha; with a count of 10 or less it is
\* never drawn.
C26_SuffixOnlyAtFullAlpha ==
    GalleryDrawn =>
        (frame.ops[1].suffix # <<>> <=>
            (arg_count > 10 /\ arg_alpha.n >= arg_alpha.d))

\* C26, amended: with a count above 10 the count text "x<count>" is drawn
\* whenever at least one marker is revealed, that is from alpha 0.1 on
\* (alpha 1 included), and not when no marker is revealed; with a count of
\* 10 or less it is never drawn.
C26_SuffixWithFirstMarker ==
    GalleryDrawn =>
        /\ frame.ops[1].suffix # <<>> <=>
              (arg_count > 10 /\ 10 * arg_alpha.n >= arg_alpha.d)
        /\ frame.ops[1].suffix # <<>> =>
              /\ Len(frame.ops[1].markers) >= 1
              /\ frame.ops[1].suffix = <<"x">> \o IntToStr(arg_count)
        /\ arg_count <= 10 => frame.ops[1].suffix = <<>>

\* twelve objects at alpha 0.3: three markers and the count text
C26_Witness ==
    /\ GalleryDrawn
    /\ arg_count = 12
    /\ 10 * arg_alpha.n = 3 * arg_alpha.d
    /\ Len(frame.ops[1].markers) = 3
    /\ frame.ops[1].suffix = <<"x", "1", "2">>

----------------------------------------------------------------------------
(* Properties of the right-triangle diagram *)

TriangleDrawn == pc = "primitive_drawn" /\ routine = "right_triangle"

\* the elements of the diagram the primitive paints
Visible(op) ==
    (IF op.outline THEN {"outline"} ELSE {})
    \cup (IF op.marker THEN {"marker"} ELSE {})
    \cup (IF op.labels # <<>> THEN {"labels"} ELSE {})

\* C27: the triangle's size scales with alpha (floor(200 * alpha)), the
\* right-angle marker is drawn exactly when alpha > 0.5, the side labels
\* exactly when alpha > 0.7 with opacity (alpha - 0.7) / 0.3, and at a
\* larger alpha no element that was visible is missing and the triangle is
\* no smaller.
C27_TriangleThresholds ==
    TriangleDrawn =>
        LET op == frame.ops[1]
        IN  /\ IsFloor(op.size, 200 * arg_alpha.n, arg_alpha.d)
            /\ op.marker <=> 2 * arg_alpha.n > arg_alpha.d
            /\ op.labels # <<>> <=> 10 * arg_alpha.n > 7 * arg_alpha.d
            /\ op.labels # <<>> =>
                  /\ op.labels = <<"a", "b", "c">>
                  /\ 3 * arg_alpha.d * op.label_alpha.n =
                        (10 * arg_alpha.n - 7 * arg_alpha.d) * op.label_alpha.d
                  /\ op.label_alpha.n > 0
                  /\ op.label_alpha.n <= op.label_alpha.d
            /\ \A b \in Alphas :
                  b.n >= arg_alpha.n =>
                      /\ Visible(op) \subseteq Visible(draw_right_triangle(b))
                      /\ op.size <= draw_right_triangle(b).size

\* alpha 0.8: marker and labels are drawn, the labels at a third of full
\* opacity
C27_Witness ==
    /\ TriangleDrawn
    /\ 10 * arg_alpha.n = 8 * arg_alpha.d
    /\ frame.ops[1].size = 160
    /\ frame.ops[1].marker
    /\ frame.ops[1].labels = <<"a", "b", "c">>
    /\ 3 * frame.ops[1].label_alpha.n = frame.ops[1].label_alpha.d

----------------------------------------------------------------------------
(* video_pipeline/script_generator.py: generate_script *)

\* str.strip(): the text without its leading and trailing whitespace
RECURSIVE strip(_)
strip(s) ==
    IF s = <<>> THEN <<>>
    ELSE IF IsSpace(Head(s)) THEN strip(Tail(s))
    ELSE IF IsSpace(s[Len(s)]) THEN strip(SubSeq(s, 1, Len(s) - 1))
    ELSE s

\* str.split('\n\n'): cut at each blank-line separator, scanning from the
\* left; the pieces may be empty
RECURSIVE SplitParagraphsFrom(_, _)
SplitParagraphsFrom(s, i) ==
    IF i >= Len(s) THEN <<s>>
    ELSE IF s[i] = "\n" /\ s[i + 1] = "\n"
         THEN <<SubSeq(s, 1, i - 1)>> \o SplitParagraphsFrom(SubSeq(s, i + 2, Len(s)), 1)
         ELSE SplitParagraphsFrom(s, i + 1)

RECURSIVE StripEach(_)
StripEach(ps) == IF ps = <<>> THEN <<>> ELSE <<strip(Head(ps))>> \o StripEach(Tail(ps))

NonEmpty(p) == p # <<>>

\* lines 22-28: the stripped non-empty pieces of the stripped text, or the
\* stripped text itself when there is none
paragraphs_of(text) ==
    LET stripped == strip(text)
        paragraphs == SelectSeq(StripEach(SplitParagraphsFrom(stripped, 1)), NonEmpty)
    IN  IF paragraphs = <<>> THEN <<stripped>> ELSE paragraphs

Smallest(a, b) == IF a <= b THEN a ELSE b

LongerThanNoise(p) == Len(p) > 20

\* generate_script taking paragraphs[1:6] after the first
generate_script_window_of_five(text) ==
    LET paragraphs == paragraphs_of(text)
        found == <<paragraphs[1]>>
                   \o SelectSeq(SubSeq(paragraphs, 2, Smallest(6, Len(paragraphs))),
                                LongerThanNoise)
    IN  IF found = <<>> THEN <<text>> ELSE found

\* lines 32-49: the first paragraph, then those of paragraphs[1:5] longer
\* than 20 characters; the text itself if that left nothing
generate_script(text) ==
    LET paragraphs == paragraphs_of(text)
        found == <<paragraphs[1]>>
                   \o SelectSeq(SubSeq(paragraphs, 2, Smallest(5, Len(paragraphs))),
                                LongerThanNoise)
    IN  IF found = <<>> THEN <<text>> ELSE found

\* the pieces an answer is assembled from: empty, blank, a paragraph of 21
\* and one of 20 characters, and one of 21 inside stray whitespace
PieceKinds ==
    { <<>>,
      <<" ">>,
      TextOfLength(21),
      TextOfLength(20),
      <<"\n">> \o TextOfLength(21) \o <<" ">> }

RECURSIVE JoinParagraphs(_)
JoinParagraphs(ps) ==
    IF ps = <<>> THEN <<>>
    ELSE IF Len(ps) = 1 THEN ps[1]
    ELSE ps[1] \o <<"\n", "\n">> \o JoinParagraphs(Tail(ps))

AnswerTexts ==
    { JoinParagraphs(ps) : ps \in UNION { [1..k -> PieceKinds] : k \in 0..MaxParagraphs } }

\* no render, no request
RenderIdle ==
    /\ topic = <<>>
    /\ explanation = <<>>
    /\ formulas = <<>>
    /\ duration = 0
    /\ total_frames = 0
    /\ frame_num = 0
    /\ animation_type = "none"
    /\ frame = NoFrame
    /\ out = "none"
    /\ written = <<>>
    /\ result = "unset"
    /\ raised = FALSE
    /\ exc = "none"
    /\ routine = "none"

InitScript ==
    /\ RenderIdle
    /\ TaskLayerIdle
    /\ drawn = <<>>
    /\ arg_text = <<>>
    /\ arg_words = <<>>
    /\ arg_alpha = [n |-> 1, d |-> 1]
    /\ arg_count = 0
    /\ answer_text \in AnswerTexts
    /\ scenes = "unset"
    /\ model = DefaultModel
    /\ ollama_models = {DefaultModel}
    /\ switch_call = NoCall
    /\ tracker = NewTracker
    /\ arg_current = 0
    /\ arg_total = 0
    /\ pc = "script_input"

GenerateScript ==
    /\ pc = "script_input"
    /\ scenes' = generate_script(answer_text)
    /\ pc' = "script_returned"
    /\ UNCHANGED <<renderVars, taskVars, drawn, primitiveArgs, answer_text, modelVars,
                   trackerVars>>

NextScript == GenerateScript

SpecScript == InitScript /\ [][NextScript]_vars

ScriptReturned == pc = "script_returned"

HasNonEmptyParagraph(text) == \E i \in 1..Len(text) : ~IsSpace(text[i])

\* C28: generate_script returns between one and five scenes for every
\* input; with a non-empty paragraph in the input the first scene is the
\* first of them, and the later scenes are exactly those of the next four
\* paragraphs that are longer than 20 characters, in their original order.
\* An empty or whitespace-only input gives the single scene "".
C28_ScenesFromParagraphs ==
    ScriptReturned =>
        LET paragraphs == paragraphs_of(answer_text)
            window == SubSeq(paragraphs, 2, Smallest(5, Len(paragraphs)))
        IN  /\ Len(scenes) \in 1..5
            /\ scenes[1] = paragraphs[1]
            /\ HasNonEmptyParagraph(answer_text) =>
                  /\ \A i \in 1..Len(paragraphs) :
                        /\ paragraphs[i] # <<>>
                        /\ ~IsSpace(paragraphs[i][1])
                        /\ ~IsSpace(paragraphs[i][Len(paragraphs[i])])
                  /\ Len(Flatten(paragraphs)) <= Len(answer_text)
            /\ ~HasNonEmptyParagraph(answer_text) => scenes = << <<>> >>
            /\ \A i \in 2..Len(scenes) : Len(scenes[i]) > 20
            /\ Tail(scenes) = SelectSeq(window, LongerThanNoise)
            /\ \A j \in 1..Len(window) :
                  Len(window[j]) > 20 => \E i \in 2..Len(scenes) : scenes[i] = window[j]

\* six paragraphs, the first and the third of 20 characters: the first is
\* kept, the third dropped, the sixth never looked at
C28_Witness ==
    /\ ScriptReturned
    /\ Len(paragraphs_of(answer_text)) = 6
    /\ Len(paragraphs_of(answer_text)[1]) = 20
    /\ Len(paragraphs_of(answer_text)[3]) = 20
    /\ Len(paragraphs_of(answer_text)[2]) = 21
    /\ Len(scenes) = 4
    /\ Len(scenes[1]) = 20

----------------------------------------------------------------------------
(* app.py: /api/switch-model, with llm_engine.py list_available_models and
   pull_model *)

\* config.py: the configured model and three of the alternatives
Models == {DefaultModel, "llama3", "phi3", "gemma:2b"}

\* list_available_models: the names the server reports, or [] when the
\* request fails or is answered with another status than 200
Listings == {ollama_models, {}}

SwitchResponse(code) == [op |-> "switch_model", code |-> code, task_id |-> 0, status |-> "none"]

InitModel ==
    /\ RenderIdle
    /\ AI_AVAILABLE = TRUE
    /\ video_tasks = <<>>
    /\ jobs = <<>>
    /\ response = NoResponse
    /\ drawn = <<>>
    /\ arg_text = <<>>
    /\ arg_words = <<>>
    /\ arg_alpha = [n |-> 1, d |-> 1]
    /\ arg_count = 0
    /\ answer_text = <<>>
    /\ scenes = "unset"
    /\ model = DefaultModel
    /\ ollama_models \in SUBSET Models
    /\ switch_call = NoCall
    /\ tracker = NewTracker
    /\ arg_current = 0
    /\ arg_total = 0
    /\ pc = "serving"

\* lines 203-205, 214-215: the requested model is listed
SwitchModelAvailable ==
    /\ pc = "serving"
    /\ \E model_name \in Models, available \in Listings :
          /\ model_name \in available
          /\ switch_call' = [model_name |-> model_name, available |-> available,
                             success |-> "not tried"]
          /\ model' = model_name
          /\ response' = SwitchResponse(200)
    /\ UNCHANGED <<renderVars, AI_AVAILABLE, video_tasks, jobs, drawn, primitiveArgs,
                   scriptVars, ollama_models, trackerVars, pc>>

\* lines 205-207, 214-215: not listed, pull_model returns True
SwitchModelPulled ==
    /\ pc = "serving"
    /\ \E model_name \in Models, available \in Listings :
          /\ model_name \notin available
          /\ ollama_models' = ollama_models \cup {model_name}
          /\ switch_call' = [model_name |-> model_name, available |-> available,
                             success |-> TRUE]
          /\ model' = model_name
          /\ response' = SwitchResponse(200)
    /\ UNCHANGED <<renderVars, AI_AVAILABLE, video_tasks, jobs, drawn, primitiveArgs,
                   scriptVars, trackerVars, pc>>

\* switch_model assigning the model before it tests the pull
SwitchModelPullFailedAssigning ==
    /\ pc = "serving"
    /\ \E model_name \in Models, available \in Listings :
          /\ model_name \notin available
          /\ switch_call' = [model_name |-> model_name, available |-> available,
                             success |-> FALSE]
          /\ model' = model_name
          /\ response' = SwitchResponse(400)
    /\ UNCHANGED <<renderVars, AI_AVAILABLE, video_tasks, jobs, drawn, primitiveArgs,
                   scriptVars, ollama_models, trackerVars, pc>>

\* lines 205-212: not listed, pull_model returns False: HTTPException 400
\* raised before the assignment of line 214
SwitchModelPullFailed ==
    /\ pc = "serving"
    /\ \E model_name \in Models, available \in Listings :
          /\ model_name \notin available
          /\ switch_call' = [model_name |-> model_name, available |-> available,
                             success |-> FALSE]
          /\ response' = SwitchResponse(400)
    /\ UNCHANGED <<renderVars, AI_AVAILABLE, video_tasks, jobs, drawn, primitiveArgs,
                   scriptVars, model, ollama_models, trackerVars, pc>>

NextModel ==
    \/ SwitchModelAvailable
    \/ SwitchModelPulled
    \/ SwitchModelPullFailed

SpecModel == InitModel /\ [][NextModel]_vars

\* C29: a switch_model call changes the active model only to the requested
\* one and only if that model was listed as available or its pull
\* succeeded; when it is not listed and the pull fails the response is
\* HTTP 400 and the active model is unchanged.
C29_SwitchOnlyWhenObtainable ==
    [][ LET call == switch_call'
            obtainable == call.model_name \in call.available \/ call.success = TRUE
        IN  /\ model' # model => model' = call.model_name /\ obtainable
            /\ response'.code = 200 => model' = call.model_name /\ obtainable
            /\ ~obtainable => response'.code = 400 /\ model' = model
            /\ obtainable => response'.code = 200 /\ model' = call.model_name
      ]_vars

\* after an earlier switch away from the configured model, a request for an
\* unlisted model whose pull failed: 400, and the earlier choice still active
C29_Witness ==
    /\ response = SwitchResponse(400)
    /\ switch_call.success = FALSE
    /\ switch_call.model_name \notin switch_call.available
    /\ model # DefaultModel
    /\ model # switch_call.model_name

----------------------------------------------------------------------------
(* video_pipeline/progress.py: ProgressTracker *)

\* IEEE 754 binary64, as Python's float: 53 significant bits, round to
\* nearest, ties to even. A significand is held as its leading word and
\* four limbs of 13 bits: top * 2^52 + l1 * 2^39 + l2 * 2^26 + l3 * 2^13 + l4.
Limb == 8192

Pow2 == <<2, 4, 8, 16, 32, 64, 128, 256, 512, 1024, 2048, 4096, 8192>>

TwoTo(n) == IF n = 0 THEN 1 ELSE Pow2[n]

\* the binary exponent of current / total: 2^e <= current / total < 2^(e+1)
Exponent(current, total) ==
    CHOOSE e \in -13..12 :
        IF e >= 0
        THEN TwoTo(e) * total <= current /\ current < 2 * TwoTo(e) * total
        ELSE total <= TwoTo(-e) * current /\ TwoTo(-e) * current < 2 * total

\* add carry to the lowest limb and propagate
Carried(top, l1, l2, l3, l4) ==
    LET c4 == l4 \div Limb
        c3 == (l3 + c4) \div Limb
        c2 == (l2 + c3) \div Limb
        c1 == (l1 + c2) \div Limb
    IN  [top |-> top + c1, l1 |-> (l1 + c2) % Limb, l2 |-> (l2 + c3) % Limb,
         l3 |-> (l3 + c4) % Limb, l4 |-> l4 % Limb]

\* current / total as a double: the quotient scaled into [1, 2) by long
\* division, 13 bits at a time, then rounded on the 54th bit
Quotient(current, total) ==
    LET e == Exponent(current, total)
        n == IF e < 0 THEN TwoTo(-e) * current ELSE current
        d == IF e > 0 THEN TwoTo(e) * total ELSE total
        r0 == n - d
        l1 == (r0 * Limb) \div d
        r1 == (r0 * Limb) % d
        l2 == (r1 * Limb) \div d
        r2 == (r1 * Limb) % d
        l3 == (r2 * Limb) \div d
        r3 == (r2 * Limb) % d
        l4 == (r3 * Limb) \div d
        r4 == (r3 * Limb) % d
        guard == 2 * r4 >= d
        sticky == 2 * r4 # d /\ r4 # 0
        up == guard /\ (sticky \/ l4 % 2 = 1)
    IN  [e |-> e, m |-> Carried(1, l1, l2, l3, l4 + (IF up THEN 1 ELSE 0))]

\* a double times 100 as a double: the exact product of the significand,
\* rounded back to 53 bits by clearing its lowest 6 or 7 bits
Times100(q) ==
    LET exact == Carried(100 * q.m.top, 100 * q.m.l1, 100 * q.m.l2, 100 * q.m.l3,
                         100 * q.m.l4)
        s == IF exact.top >= 128 THEN 7 ELSE 6
        dropped == exact.l4 % TwoTo(s)
        guard == dropped >= TwoTo(s - 1)
        sticky == dropped % TwoTo(s - 1) # 0
        odd == (exact.l4 \div TwoTo(s)) % 2 = 1
        up == guard /\ (sticky \/ odd)
    IN  [e |-> q.e,
         m |-> Carried(exact.top, exact.l1, exact.l2, exact.l3,
                       exact.l4 - dropped + (IF up THEN TwoTo(s) ELSE 0))]

\* int(x) of a double x >= 0 below 2^13 * 128: the bits above the binary point
IntegerPart(x) ==
    IF x.e >= 0
    THEN x.m.top * TwoTo(x.e) + x.m.l1 \div TwoTo(13 - x.e)
    ELSE x.m.top \div TwoTo(-x.e)

\* line 26: int((current / total) * 100) if total > 0 else 0, for
\* 0 <= current and 2^-13 <= current / total < 2^13
percentage_of(current, total) ==
    IF total > 0 /\ current > 0
    THEN IntegerPart(Times100(Quotient(current, total)))
    ELSE 0

Errors == {"None", "render failed"}

InitProgress ==
    /\ RenderIdle
    /\ TaskLayerIdle
    /\ drawn = <<>>
    /\ arg_text = <<>>
    /\ arg_words = <<>>
    /\ arg_alpha = [n |-> 1, d |-> 1]
    /\ arg_count = 0
    /\ answer_text = <<>>
    /\ scenes = "unset"
    /\ model = DefaultModel
    /\ ollama_models = {DefaultModel}
    /\ switch_call = NoCall
    /\ tracker = NewTracker
    /\ arg_total \in 0..MaxScenes
    /\ arg_current \in 0..MaxScenes
    /\ arg_current <= arg_total \/ arg_total = 0
    /\ pc = "tracking"

TrackerCall(name, after) ==
    /\ pc = "tracking"
    /\ routine' = name
    /\ tracker' = after
    /\ UNCHANGED <<requestVars, total_frames, frame_num, animation_type, frame, out,
                   written, result, raised, exc, taskVars, drawn, primitiveArgs,
                   scriptVars, modelVars, arg_current, arg_total, pc>>

\* lines 15-20
start ==
    TrackerCall("start", [tracker EXCEPT !.total_scenes = arg_total,
                                         !.current_scene = 0,
                                         !.percentage = 0,
                                         !.status = "processing"])

\* lines 22-27
update ==
    TrackerCall("update", [tracker EXCEPT !.current_scene = arg_current,
                                          !.total_scenes = arg_total,
                                          !.percentage = percentage_of(arg_current, arg_total),
                                          !.status = "processing"])

\* lines 29-32
complete ==
    TrackerCall("complete", [tracker EXCEPT !.percentage = 100, !.status = "completed"])

\* lines 34-37
fail ==
    \E error \in Errors :
        TrackerCall("fail", [tracker EXCEPT !.status = "failed", !.error = error])

NextProgress ==
    \/ start
    \/ update
    \/ complete
    \/ fail

SpecProgress == InitProgress /\ [][NextProgress]_vars

\* C30: the status is one of idle, processing, completed, failed; a
\* completed tracker shows 100 percent; and right after update(current,
\* total) the percentage is floor(100 * current / total) when total > 0 and
\* 0 when total = 0.
C30_PercentageIsFloor ==
    /\ tracker.status \in {"idle", "processing", "completed", "failed"}
    /\ tracker.status = "completed" => tracker.percentage = 100
    /\ routine = "update" =>
          IF tracker.total_scenes > 0
          THEN IsFloor(tracker.percentage, 100 * tracker.current_scene, tracker.total_scenes)
          ELSE tracker.percentage = 0

====
